---- MODULE Spec2Model ----
(***************************************************************************)
(* Model of check_auto_downtimes: the directory cache (InfoCache), the     *)
(* per-rule state cache (LocalStateCache), the target resolver             *)
(* (TargetListBuilder) and the downtime reconciliation of main().          *)
(*                                                                         *)
(* Host and service names are tuples of one-character strings, so that     *)
(* the substring and word-boundary matching of the finders is computed     *)
(* and not assumed.  Time is counted in seconds.                           *)
(***************************************************************************)
EXTENDS Integers, Sequences, FiniteSets, TLC

VARIABLES
    \* ---- target resolution (TargetListBuilder over an InfoCache) ----
    tl_hosts,      \* inventory the cache was built from: sequence of HostInfo
    tl_env,        \* the Env fields the resolver reads
    tl_out,        \* result of the last safe_create / find_childs_of_host
    \* ---- concurrent InfoCache.load / InfoCache._update ----
    c_now,         \* wall clock, seconds
    c_file,        \* the snapshot file: [exists, mtime, complete]
    c_lock,        \* holder of the flock on CACHE_LOCK, Unlocked when free
    c_proc,        \* per process: position in InfoCache.load and what it saw
    c_hist,        \* history: the time at which the last rebuild completed
    \* ---- one rule: successive invocations of main() ----
    dts,           \* downtimes scheduled in the monitoring core
    state_file,    \* the rule's LocalStateCache file: [exists, mtime, data]
    run,           \* position and locals of the current invocation of main()
    quiet          \* history: the last invocation completed and nothing changed since

tlVars == <<tl_hosts, tl_env, tl_out>>

cVars == <<c_now, c_file, c_lock, c_proc, c_hist>>

mVars == <<dts, state_file, run, quiet>>

vars == <<tl_hosts, tl_env, tl_out, c_now, c_file, c_lock, c_proc, c_hist,
          dts, state_file, run, quiet>>

(***************************************************************************)
(* Names                                                                   *)
(***************************************************************************)
nDB   == <<"d", "b">>
nDBa  == <<"d", "b", "-", "a">>
nW    == <<"w">>
sPDB  == <<"p", " ", "d", "b">>
sCPU  == <<"c">>
NoSvc == <<>>

HostNames == <<nDB, nDBa, nW>>

HostNameSet == {HostNames[i] : i \in 1..Len(HostNames)}

\* the service inventory get_services() returns: (service name, host name)
Services == {[name |-> sPDB, host |-> nDBa], [name |-> sCPU, host |-> nW]}

IsWordChar(c) ==
    c \in {"a", "b", "c", "d", "p", "w", "A", "B", "D", "W", "_"}

LowerChar(c) ==
    CASE c = "A" -> "a"
      [] c = "B" -> "b"
      [] c = "D" -> "d"
      [] c = "W" -> "w"
      [] OTHER -> c

Lower(s) == [i \in 1..Len(s) |-> LowerChar(s[i])]

\* kw occurs in s starting at (1-based) index i
OccursAt(kw, s, i) ==
    /\ i >= 1
    /\ i + Len(kw) - 1 <= Len(s)
    /\ \A k \in 1..Len(kw) : s[i + k - 1] = kw[k]

\* str.find(kw) >= 0
Contains(s, kw) == \E i \in 1..(Len(s) + 1) : OccursAt(kw, s, i)

\* re.match(WORD_BOUND + ".*" + kw + WORD_BOUND, s) for a literal kw, where
\* WORD_BOUND is (\b|_| |$): p is the number of characters the leading
\* group consumes, q the start of kw, e the index of its last character.
BoundEnd(s, e) ==
    \/ e = Len(s)
    \/ e < Len(s) /\ s[e + 1] \in {"_", " "}
    \/ (e >= 1 /\ IsWordChar(s[e])) # (e < Len(s) /\ IsWordChar(s[e + 1]))

BoundStart(s, p) ==
    \/ p = 0 /\ Len(s) = 0
    \/ p = 0 /\ Len(s) > 0 /\ IsWordChar(s[1])
    \/ p = 1 /\ Len(s) > 0 /\ s[1] \in {"_", " "}

BoundaryMatch(kw, s) ==
    \E p \in 0..1 :
        /\ BoundStart(s, p)
        /\ \E q \in (p + 1)..(Len(s) + 1) :
              /\ OccursAt(kw, s, q)
              /\ BoundEnd(s, q + Len(kw) - 1)

\* a deterministic enumeration of a finite set (list(set) in the code)
RECURSIVE SetToSeq(_)
SetToSeq(S) ==
    IF S = {} THEN <<>>
    ELSE LET x == CHOOSE y \in S : TRUE
         IN <<x>> \o SetToSeq(S \ {x})

Range(f) == {f[i] : i \in DOMAIN f}

(***************************************************************************)
(* InfoCache: the directory snapshot and its finders                       *)
(***************************************************************************)
RecursionLimit == 5

\* the index build of InfoCache._update: a dict comprehension keeps the last
\* host of the inventory list for a repeated key
LastIndex(hosts, field, key) ==
    CHOOSE i \in 1..Len(hosts) :
        /\ hosts[i][field] = key
        /\ \A j \in (i + 1)..Len(hosts) : hosts[j][field] # key

BuildCache(hosts, svcs) ==
    LET hs == Range(hosts)
    IN [hosts_by_id |->
            [n \in {h.name : h \in hs} |-> hosts[LastIndex(hosts, "name", n)]],
        hosts_by_alias |->
            [a \in {h.alias : h \in hs} |-> hosts[LastIndex(hosts, "alias", a)]],
        hosts_by_id_insens |->
            [k \in {Lower(h.name) : h \in hs} |->
                {h.name : h \in {g \in hs : Lower(g.name) = k}}],
        hosts_by_alias_insens |->
            [k \in {Lower(h.alias) : h \in hs} |->
                {h.name : h \in {g \in hs : Lower(g.alias) = k}}],
        svcs |-> svcs]

\* dict.get(key, default)
DictGet(d, k, default) == IF k \in DOMAIN d THEN d[k] ELSE default

\* InfoCache._find_hosts: the set of HostInfo the lookup yields
FindHostsByName(cache, host_name, case_insensitive) ==
    IF case_insensitive
    THEN {cache.hosts_by_id[n] :
            n \in (DictGet(cache.hosts_by_id_insens, host_name, {})
                   \cup DictGet(cache.hosts_by_alias_insens, host_name, {}))
                  \cap DOMAIN cache.hosts_by_id}
    ELSE {cache.hosts_by_id[n] : n \in {host_name} \cap DOMAIN cache.hosts_by_id}
         \cup {cache.hosts_by_alias[a] :
                 a \in {host_name} \cap DOMAIN cache.hosts_by_alias}

\* the loop guard of find_childs_of_host: the one host the recursion skips
SkipsHost(mhost, host_name) == mhost = host_name

\* InfoCache.find_childs_of_host.  depth counts the frames of the recursion:
\* at RecursionLimit the interpreter raises RecursionError (overflow).
\* calls lists the host names the function was called for, in call order.
RECURSIVE FindChildsOfHost(_, _, _, _, _), ExpandChilds(_, _, _, _)
ExpandChilds(cache, todo, host_name, depth) ==
    IF todo = <<>> THEN [overflow |-> FALSE, res |-> {}, calls |-> <<>>]
    ELSE LET mhost == Head(todo)
             one == IF SkipsHost(mhost, host_name)
                    THEN [overflow |-> FALSE, res |-> {}, calls |-> <<>>]
                    ELSE FindChildsOfHost(cache, mhost, TRUE, FALSE, depth + 1)
         IN IF one.overflow THEN [overflow |-> TRUE, res |-> {}, calls |-> one.calls]
            ELSE LET rest == ExpandChilds(cache, Tail(todo), host_name, depth)
                 IN [overflow |-> rest.overflow,
                     res |-> one.res \cup rest.res,
                     calls |-> one.calls \o rest.calls]

FindChildsOfHost(cache, host_name, recursive, case_insensitive, depth) ==
    IF depth > RecursionLimit
    THEN [overflow |-> TRUE, res |-> {}, calls |-> <<host_name>>]
    ELSE LET res == UNION {h.childs :
                             h \in FindHostsByName(cache, host_name, case_insensitive)}
             more == IF recursive
                     THEN ExpandChilds(cache, SetToSeq(res), host_name, depth)
                     ELSE [overflow |-> FALSE, res |-> {}, calls |-> <<>>]
         IN [overflow |-> more.overflow,
             res |-> IF more.overflow THEN {} ELSE res \cup more.res,
             calls |-> <<host_name>> \o more.calls]

\* InfoCache.find_parents_of_host
FindParentsOfHost(cache, host_name, case_insensitive) ==
    UNION {h.parents : h \in FindHostsByName(cache, host_name, case_insensitive)}

\* InfoCache.find_similar_hosts (one entry per host of the snapshot)
FindSimilarHosts(cache, hostname, case_insensitive, boundary_match) ==
    LET hs == Range(cache.hosts_by_id)
        hn == Lower(hostname)
    IN IF ~boundary_match
       THEN IF ~case_insensitive
            THEN {h.name : h \in {g \in hs :
                     /\ Contains(g.name, hostname) \/ Contains(g.alias, hostname)
                     /\ g.name # hostname}}
            ELSE {h.name : h \in {g \in hs :
                     /\ Contains(Lower(g.name), hn) \/ Contains(Lower(g.alias), hn)
                     /\ g.name # hn}}
       ELSE IF ~case_insensitive
            THEN {h.name : h \in {g \in hs :
                     /\ BoundaryMatch(hostname, g.name)
                          \/ BoundaryMatch(hostname, g.alias)
                     /\ g.name # hostname}}
            ELSE {h.name : h \in {g \in hs :
                     /\ BoundaryMatch(hn, Lower(g.name))
                          \/ BoundaryMatch(hn, Lower(g.alias))
                     /\ g.name # hostname}}

\* a host or service pattern of a manual target: ^lit anchors at the start,
\* any other pattern gets ".*" in front (re.match then finds lit anywhere)
PatternMatch(pat, s, case_insensitive) ==
    LET lit == IF case_insensitive THEN Lower(pat.lit) ELSE pat.lit
        str == IF case_insensitive THEN Lower(s) ELSE s
    IN IF pat.anchored THEN OccursAt(lit, str, 1) ELSE Contains(str, lit)

\* InfoCache.find_hosts
FindHosts(cache, name_regex, case_insensitive) ==
    {n \in DOMAIN cache.hosts_by_id : PatternMatch(name_regex, n, case_insensitive)}

\* the empty pattern string (falsy in the code)
NoPattern == [anchored |-> FALSE, lit |-> <<>>]

Literal(name) == [anchored |-> FALSE, lit |-> name]

\* a find_services that does not look at the host name
FindServicesOnAnyHost(cache, name_regex, case_insensitive, boundary_match, host_name_regex) ==
    {<<t.host, t.name>> :
        t \in {u \in cache.svcs : PatternMatch(name_regex, u.name, case_insensitive)}}

\* InfoCache.find_services without optional identifier: name_regex and
\* host_name_regex are patterns; boundary_match wraps name_regex in WORD_BOUND
FindServices(cache, name_regex, case_insensitive, boundary_match, host_name_regex) ==
    LET Str(s) == IF case_insensitive THEN Lower(s) ELSE s
        NameOk(s) == IF boundary_match
                     THEN BoundaryMatch(Str(name_regex.lit), Str(s))
                     ELSE PatternMatch(name_regex, s, case_insensitive)
        HostOk(h) == \/ host_name_regex = NoPattern
                     \/ PatternMatch(host_name_regex, h, case_insensitive)
    IN {<<t.host, t.name>> : t \in {u \in cache.svcs : NameOk(u.name) /\ HostOk(u.host)}}

(***************************************************************************)
(* TargetListBuilder                                                       *)
(***************************************************************************)
Target(label, host, svc) == [label |-> label, host |-> host, svc |-> svc]

\* TargetListBuilder.add_myself
AddMyself(host_name) == <<Target("myself", host_name, NoSvc)>>

\* TargetListBuilder.add_similar_host_names (strip_fqdn off)
AddSimilarHostNames(cache, e) ==
    LET hs == SetToSeq(FindSimilarHosts(cache, e.my_host_name, e.case_insensitive,
                                        e.hostname_boundary_match))
    IN [i \in 1..Len(hs) |-> Target("similar", hs[i], NoSvc)]

\* TargetListBuilder.add_childs_from_parent; raises when the expansion overflows
AddChildsFromParent(cache, e) ==
    LET r == FindChildsOfHost(cache, e.my_host_name, TRUE, e.case_insensitive, 1)
        hs == SetToSeq(r.res)
    IN [raised |-> r.overflow,
        tgts |-> [i \in 1..Len(hs) |-> Target("child", hs[i], NoSvc)]]

\* TargetListBuilder.add_dependant_services (strip_fqdn off, no identifier)
AddDependantServices(cache, e) ==
    LET ss == SetToSeq(FindServices(cache, Literal(e.my_host_name), e.case_insensitive,
                                    e.hostname_boundary_match, NoPattern))
    IN [i \in 1..Len(ss) |-> Target("depsvc", ss[i][1], ss[i][2])]

\* TargetListBuilder.add_dependant_services_on_parent: find_services_by_host
\* of InfoCache raises for every parent found
AddDependantServicesOnParentRaises(cache, e) ==
    FindParentsOfHost(cache, e.my_host_name, e.case_insensitive) # {}

\* TargetListBuilder.add for one manual target m = (label, host_regex, service_regex)
AddManual(cache, e, m) ==
    IF m.svc = NoPattern
    THEN LET hs == SetToSeq(FindHosts(cache, m.host, e.case_insensitive))
         IN [i \in 1..Len(hs) |-> Target(m.label, hs[i], NoSvc)]
    ELSE LET ss == SetToSeq(FindServices(cache, m.svc, e.case_insensitive, FALSE, m.host))
         IN [i \in 1..Len(ss) |-> Target(m.label, ss[i][1], ss[i][2])]

\* the loop over env.manual_targets of safe_create: bad is set when a
\* triple without host pattern stops the run
RECURSIVE AddManualTargets(_, _, _)
AddManualTargets(cache, e, ms) ==
    IF ms = <<>> THEN [bad |-> FALSE, tgts |-> <<>>]
    ELSE IF Head(ms).host = NoPattern THEN [bad |-> TRUE, tgts |-> <<>>]
    ELSE LET rest == AddManualTargets(cache, e, Tail(ms))
         IN [bad |-> rest.bad, tgts |-> AddManual(cache, e, Head(ms)) \o rest.tgts]

\* a safe_create that passes over the triples it cannot use
SafeCreateLenient(e, maintenance_by, cache) ==
    LET Usable(ms) == SelectSeq(ms, LAMBDA m : m.host # NoPattern)
    IN [exit |-> "return",
        tgts |-> AddManualTargets(cache, e, Usable(e.manual_targets)).tgts]

\* TargetListBuilder.safe_create.  exit: "return" (tgts is the target list),
\* "crash" (do_exit(NAGRES_CRASH)) or "exception" (propagates to the top level)
SafeCreate(e, maintenance_by, cache) ==
    LET childs == AddChildsFromParent(cache, e)
        Ret(t) == [exit |-> "return", tgts |-> t]
        Crash == [exit |-> "crash", tgts |-> <<>>]
        Exc == [exit |-> "exception", tgts |-> <<>>]
    IN CASE e.dependency_detection = "fully_automated" ->
              IF childs.raised THEN Exc
              ELSE Ret((IF maintenance_by = "service"
                        THEN AddMyself(e.my_host_name) ELSE <<>>)
                       \o AddSimilarHostNames(cache, e)
                       \o childs.tgts
                       \o AddDependantServices(cache, e))
         [] e.dependency_detection = "search_parent_child" ->
              IF childs.raised \/ AddDependantServicesOnParentRaises(cache, e) THEN Exc
              ELSE Ret(AddMyself(e.my_host_name)
                       \o AddDependantServices(cache, e)
                       \o childs.tgts)
         [] e.dependency_detection = "search_child" ->
              IF childs.raised THEN Exc
              ELSE Ret(AddMyself(e.my_host_name) \o childs.tgts)
         [] e.dependency_detection = "specify_targets" ->
              LET r == AddManualTargets(cache, e, e.manual_targets)
              IN IF r.bad \/ r.tgts = <<>> THEN Crash ELSE Ret(r.tgts)
         [] OTHER -> Crash

\* the (host, service) pairs of a target list, with repetition
Pairs(tgts) == [i \in 1..Len(tgts) |-> <<tgts[i].host, tgts[i].svc>>]

NoRepeats(seq) == \A i, j \in 1..Len(seq) : seq[i] = seq[j] => i = j

(***************************************************************************)
(* Values the variables of one part keep while another part runs           *)
(***************************************************************************)
MAX_CACHE_AGE_MINUTES == 60

MaxCacheAge == 60 * MAX_CACHE_AGE_MINUTES

Procs == {"p1", "p2"}

\* value of the lock file when no process holds the flock
Unlocked == "nobody"

\* the snapshot file does not exist
NoFile == [exists |-> FALSE, mtime |-> 0, complete |-> FALSE]

\* value of c_hist before any rebuild has completed
NoRebuild == 0 - 1

\* a process outside InfoCache.load
IdleProc == [pc |-> "idle"]

TgtIdle ==
    /\ tl_hosts = <<>>
    /\ tl_env = [my_host_name |-> nDB]
    /\ tl_out = [op |-> "none"]

CacheIdle ==
    /\ c_now = 0
    /\ c_file = NoFile
    /\ c_lock = Unlocked
    /\ c_proc = [p \in Procs |-> IdleProc]
    /\ c_hist = NoRebuild

\* None of the optional timestamps of LocalState
NoTs == 0 - 1

\* None of LocalState.normal_check_interval
NoInterval == 0

\* LocalState(None, None)
EmptyState ==
    [has_tgt |-> FALSE, tgt_list |-> <<>>, no_active_maint |-> "None",
     normal_check_interval |-> NoInterval, short_lived_refresh |-> NoTs,
     cfg_hash |-> "None", last_update_ts |-> NoTs]

\* the state file does not exist
NoStateFile == [exists |-> FALSE, mtime |-> 0, data |-> EmptyState]

\* exit codes of the plugin
NAGRES_OK == 0

NAGRES_CRIT == 2

NAGRES_CRASH == 3

\* the process has not exited
NoExit == 0 - 1

\* no invocation of main() has started
\* no request has been answered yet
NoResp == [code |-> 0, no_match |-> FALSE]

NoRun ==
    [pc |-> "idle", n |-> 0, cfg |-> "None", lost |-> EmptyState,
     exit |-> NoExit, cause |-> "none", prev |-> "none",
     dts0 |-> {}, state0 |-> NoStateFile,
     quiet |-> FALSE, expired |-> FALSE, mismatch |-> FALSE, accepted |-> FALSE,
     flag_loaded |-> "None", nci_fetched |-> FALSE, src |-> "none", snap_age |-> 0,
     maintenance |-> FALSE, needing_readd |-> FALSE, curr |-> {}, add_start |-> 0,
     pending |-> <<>>, remove_old |-> FALSE, calls |-> <<>>, resp |-> NoResp,
     waited |-> FALSE]

MainIdle ==
    /\ dts = {}
    /\ state_file = NoStateFile
    /\ run = NoRun
    /\ quiet = FALSE

(***************************************************************************)
(* Resolver specification: every small inventory and rule configuration,   *)
(* resolved by safe_create and expanded by find_childs_of_host             *)
(***************************************************************************)
MaxEdges == 4

\* parent/child edges of the monitoring configuration (no host is its own parent)
ChildEdges == {e \in HostNameSet \X HostNameSet : e[1] # e[2]}

\* the inventory get_hosts() returns for a parent/child graph and aliases
Inventory(edges, alias) ==
    [i \in 1..Len(HostNames) |->
        [name |-> HostNames[i],
         alias |-> alias[HostNames[i]],
         childs |-> {c \in HostNameSet : <<HostNames[i], c>> \in edges},
         parents |-> {q \in HostNameSet : <<q, HostNames[i]>> \in edges}]]

Aliases ==
    {a \in [HostNameSet -> HostNameSet] :
        /\ a[nDB] = nDB
        /\ \A n \in HostNameSet : a[n] \in {n, nDB}}

ManualSpecs ==
    {<<>>,
     <<[label |-> "grp1", host |-> [anchored |-> FALSE, lit |-> <<"d">>], svc |-> NoPattern]>>,
     <<[label |-> "grp1", host |-> [anchored |-> TRUE, lit |-> <<"w">>], svc |-> NoPattern],
       [label |-> "grp2", host |-> NoPattern, svc |-> NoPattern]>>,
     <<[label |-> "grp1", host |-> [anchored |-> FALSE, lit |-> <<"d">>], svc |-> NoPattern],
       [label |-> "grp2", host |-> [anchored |-> FALSE, lit |-> <<"b">>],
        svc |-> [anchored |-> FALSE, lit |-> <<"p">>]]>>,
     <<[label |-> "grp1", host |-> [anchored |-> FALSE, lit |-> <<"d">>], svc |-> NoPattern],
       [label |-> "grp2", host |-> [anchored |-> TRUE, lit |-> <<"w">>],
        svc |-> [anchored |-> FALSE, lit |-> <<"p">>]]>>}

Envs ==
    {[my_host_name |-> nDB, dependency_detection |-> d, case_insensitive |-> ci,
      hostname_boundary_match |-> bm, manual_targets |-> <<>>, maintenance_by |-> mb] :
        d \in {"fully_automated", "search_parent_child", "search_child", "none"},
        ci \in BOOLEAN, bm \in BOOLEAN, mb \in {"host", "service"}}
    \cup
    {[my_host_name |-> nDB, dependency_detection |-> "specify_targets",
      case_insensitive |-> ci, hostname_boundary_match |-> TRUE,
      manual_targets |-> ms, maintenance_by |-> "host"] :
        ci \in BOOLEAN, ms \in ManualSpecs}

InitTgt ==
    /\ \E edges \in SUBSET ChildEdges, alias \in Aliases :
          /\ Cardinality(edges) <= MaxEdges
          /\ tl_hosts = Inventory(edges, alias)
    /\ tl_env \in Envs
    /\ tl_out = [op |-> "none"]
    /\ CacheIdle
    /\ MainIdle

\* one call of TargetListBuilder.safe_create on the snapshot of the inventory
Resolve ==
    /\ tl_out' = [op |-> "safe_create"]
                 @@ SafeCreate(tl_env, tl_env.maintenance_by, BuildCache(tl_hosts, Services))
    /\ UNCHANGED <<tl_hosts, tl_env>>
    /\ UNCHANGED cVars
    /\ UNCHANGED mVars

\* one call of InfoCache.find_childs_of_host(my_host_name, recursive=True)
Expand ==
    /\ tl_out' = [op |-> "childs"]
                 @@ FindChildsOfHost(BuildCache(tl_hosts, Services), tl_env.my_host_name,
                                     TRUE, tl_env.case_insensitive, 1)
    /\ UNCHANGED <<tl_hosts, tl_env>>
    /\ UNCHANGED cVars
    /\ UNCHANGED mVars

NextTgt == Resolve \/ Expand

SpecTgt == InitTgt /\ [][NextTgt]_vars

\* C8: the target list safe_create returns holds each (host, service) pair
\* at most once, for every dependency-detection mode and every inventory.
C8_TargetsUnique ==
    (tl_out.op = "safe_create" /\ tl_out.exit = "return") => NoRepeats(Pairs(tl_out.tgts))

\* C9: the recursive child expansion terminates on every finite parent/child
\* graph (no unbounded recursion, also on cycles) and calls itself for no
\* host more than once within one expansion.
C9_ExpansionTerminatesOnce ==
    tl_out.op = "childs" => (~tl_out.overflow /\ NoRepeats(tl_out.calls))

(***************************************************************************)
(* Directory cache specification: concurrent invocations of                *)
(* InfoCache.load, each a process of its own, sharing the snapshot file    *)
(* and the lock file                                                       *)
(***************************************************************************)
MaxSleeps == 2

SLEEP_BEFORE_WRITE == 5

CacheTickSteps == {SLEEP_BEFORE_WRITE, MaxCacheAge}

FileOf(mtime, complete) == [exists |-> TRUE, mtime |-> mtime, complete |-> complete]

InitCache ==
    /\ TgtIdle
    /\ MainIdle
    /\ c_now = 0
    /\ c_file \in {NoFile, FileOf(0, TRUE), FileOf(0 - MaxCacheAge, TRUE)}
    /\ c_lock = Unlocked
    /\ c_proc = [p \in Procs |-> IdleProc]
    /\ c_hist = NoRebuild

\* a freshness test that accepts every existing file
SnapshotAlwaysFresh(file, now) == file.exists

\* the freshness test of InfoCache.load (exists and age < 60 * MAX_CACHE_AGE_MINUTES)
SnapshotFresh(file, now) ==
    /\ file.exists
    /\ now - file.mtime < MaxCacheAge

\* a lock that never refuses a caller
LockAlwaysGranted(lock) == TRUE

\* fcntl.flock(LOCK_EX | LOCK_NB): granted only when no process holds the lock
LockGranted(lock) == lock = Unlocked

InRebuild(p) == c_proc[p].pc \in {"locked", "built", "slept", "writing"}

\* a check process is started and enters InfoCache.load
StartLoad(p) ==
    /\ c_proc[p].pc = "idle"
    /\ c_proc' = [c_proc EXCEPT ![p].pc = "load"]
    /\ UNCHANGED <<c_now, c_file, c_lock, c_hist>>

\* InfoCache.load up to the call of _update: a fresh file is opened and
\* unpickled; a truncated file makes pickle.load raise, which is caught
LoadFile(p) ==
    /\ c_proc[p].pc = "load"
    /\ IF SnapshotFresh(c_file, c_now)
       THEN IF c_file.complete
            THEN c_proc' = [c_proc EXCEPT ![p].pc = "loaded"]
            ELSE c_proc' = [c_proc EXCEPT ![p].pc = "badfile"]
       ELSE c_proc' = [c_proc EXCEPT ![p].pc = "update"]
    /\ UNCHANGED <<c_now, c_file, c_lock, c_hist>>

\* the handler of the failed pickle.load prints "(warn)" and load goes on
\* to _update
LoadFailed(p) ==
    /\ c_proc[p].pc = "badfile"
    /\ c_proc' = [c_proc EXCEPT ![p].pc = "update"]
    /\ UNCHANGED <<c_now, c_file, c_lock, c_hist>>

\* a flock without LOCK_NB: the caller stays in acquire until the lock is free
WaitForLock == "update"

\* FLock.acquire with the lock held elsewhere: flock(LOCK_EX | LOCK_NB)
\* fails at once, FLockException leaves the with statement and _update
\* returns False
OnLockHeld == "nolock"

\* InfoCache._update: FLock.acquire, non-blocking; FLockException makes
\* _update return False
Acquire(p) ==
    /\ c_proc[p].pc = "update"
    /\ IF LockGranted(c_lock)
       THEN /\ c_lock' = p
            /\ c_proc' = [c_proc EXCEPT ![p].pc = "locked"]
       ELSE /\ c_lock' = c_lock
            /\ c_proc' = [c_proc EXCEPT ![p].pc = OnLockHeld]
    /\ UNCHANGED <<c_now, c_file, c_hist>>

\* get_hosts, get_services and the index build succeed; the sleep starts
Query(p) ==
    /\ c_proc[p].pc = "locked"
    /\ c_proc' = [c_proc EXCEPT ![p].pc = "built"]
    /\ UNCHANGED <<c_now, c_file, c_lock, c_hist>>

\* an inventory call raises: the with block releases the lock, the
\* exception leaves _update
QueryFails(p) ==
    /\ c_proc[p].pc = "locked"
    /\ c_lock' = Unlocked
    /\ c_proc' = [c_proc EXCEPT ![p].pc = "raised"]
    /\ UNCHANGED <<c_now, c_file, c_hist>>

\* after time.sleep(5): open(fn, "wb") truncates the snapshot file in place
OpenFile(p) ==
    /\ c_proc[p].pc = "slept"
    /\ c_file' = FileOf(c_now, FALSE)
    /\ c_proc' = [c_proc EXCEPT ![p].pc = "writing"]
    /\ UNCHANGED <<c_now, c_lock, c_hist>>

\* pickle.dump completes, the file is closed, the lock released, True returned
CloseFile(p) ==
    /\ c_proc[p].pc = "writing"
    /\ c_file' = FileOf(c_now, TRUE)
    /\ c_lock' = Unlocked
    /\ c_proc' = [c_proc EXCEPT ![p].pc = "rebuilt"]
    /\ c_hist' = c_now
    /\ UNCHANGED c_now

\* the scheduler kills the process; the kernel drops its flock
Kill(p) ==
    /\ c_proc[p].pc \in {"load", "badfile", "update", "locked", "built", "slept", "writing"}
    /\ c_lock' = IF c_lock = p THEN Unlocked ELSE c_lock
    /\ c_proc' = [c_proc EXCEPT ![p].pc = "killed"]
    /\ UNCHANGED <<c_now, c_file, c_hist>>

\* the process has left InfoCache.load and ends
ExitLoad(p) ==
    /\ c_proc[p].pc \in {"loaded", "rebuilt", "nolock", "raised", "killed"}
    /\ c_proc' = [c_proc EXCEPT ![p] = IdleProc]
    /\ UNCHANGED <<c_now, c_file, c_lock, c_hist>>

\* time passes, by the length of the sleep or by the maximum snapshot age;
\* every time.sleep(5) in progress returns
CacheTick ==
    /\ \E d \in CacheTickSteps :
          /\ c_now + d < 2 * MaxCacheAge
          /\ (c_now + d) % MaxCacheAge <= MaxSleeps * SLEEP_BEFORE_WRITE
          /\ c_now' = c_now + d
    /\ c_proc' = [p \in Procs |->
                     IF c_proc[p].pc = "built"
                     THEN [c_proc[p] EXCEPT !.pc = "slept"]
                     ELSE c_proc[p]]
    /\ UNCHANGED <<c_file, c_lock, c_hist>>

NextCache ==
    \/ \E p \in Procs :
          \/ StartLoad(p)
          \/ LoadFile(p)
          \/ LoadFailed(p)
          \/ Acquire(p)
          \/ Query(p)
          \/ QueryFails(p)
          \/ OpenFile(p)
          \/ CloseFile(p)
          \/ Kill(p)
          \/ ExitLoad(p)
       /\ UNCHANGED <<tlVars, mVars>>
    \/ CacheTick /\ UNCHANGED <<tlVars, mVars>>

SpecCache == InitCache /\ [][NextCache]_vars

\* a process that is not killed keeps running: its call of flock returns
\* and load returns to its caller.  Nothing makes another process release
\* the lock, and nothing makes time pass.
FairSpecCache ==
    SpecCache /\ \A p \in Procs :
                    /\ WF_vars(Acquire(p) /\ UNCHANGED <<tlVars, mVars>>)
                    /\ WF_vars(ExitLoad(p) /\ UNCHANGED <<tlVars, mVars>>)

\* C4: the snapshot is rebuilt at most once per MAX_CACHE_AGE window: every
\* rebuild that completes does so at least MAX_CACHE_AGE after the rebuild
\* completed before it, whatever the interleaving of the processes.
C4_OneRebuildPerWindow ==
    [][\A p \in Procs :
          CloseFile(p) => (c_hist = NoRebuild \/ c_now - c_hist >= MaxCacheAge)]_vars

\* C5: at most one process is inside the rebuild critical section and it is
\* the holder of the lock; every write to the snapshot file is made by the
\* holder, never by a process whose lock attempt failed.
C5_RebuildMutex ==
    /\ [](\A p, q \in Procs : (InRebuild(p) /\ InRebuild(q)) => p = q)
    /\ [](\A p \in Procs : InRebuild(p) => c_lock = p)
    /\ [][c_file' # c_file => (c_lock # Unlocked /\ c_proc[c_lock].pc \in {"slept", "writing"}
                               /\ c_proc'[c_lock].pc \in {"writing", "rebuilt"})]_vars

\* two processes raced: one is writing the file, the other was refused the lock
C5_Witness ==
    \E p, q \in Procs : c_proc[p].pc = "writing" /\ c_proc[q].pc = "nolock"

\* C6: no process reading the snapshot file observes a partially written
\* file, with a writer running or killed in the middle of the write.
C6_NoPartialRead ==
    \A p \in Procs : c_proc[p].pc # "badfile"

(***************************************************************************)
(* Rule specification: successive invocations of main() for one rule on    *)
(* host db, whose arguments are one of two configurations, against a       *)
(* monitoring core holding the downtimes.  Time advances and the           *)
(* environment acts between invocations.                                   *)
(***************************************************************************)
MaxRuns == 3

MAX_QUERY_BATCH_SIZE == 50

\* check_interval of the rule's own service, in minutes, as livestatus reports it
CheckIntervalMinutes == 1

\* add_all: before = start - timedelta(seconds=5)
OLD_DOWNTIME_MARGIN == 5

MaxTime == 2 * MaxCacheAge

MainTickSteps == {1700, MaxCacheAge}

\* age of the snapshot file found at the start, when there is one
InitialSnapshotAges == {0, 1900}

MainInventory == Inventory({}, [n \in HostNameSet |-> n])

MainCache == BuildCache(MainInventory, Services)

\* cmd_line_hash of the argument lists
Cfgs == {"A", "B", "C", "D"}

\* cmd_line_hash of an argument list whose --manual_targets name a host and
\* a service twice, under different labels
DupCfg == "E"

\* --manual_targets of the argument lists B, C and D: a host and a service
\* that do not depend on each other; a triple without host after one that
\* resolves; a host pattern no host matches
ManualOf(c) ==
    IF c = "B"
    THEN <<[label |-> "grp1", host |-> [anchored |-> TRUE, lit |-> nW], svc |-> NoPattern],
           [label |-> "grp2", host |-> [anchored |-> TRUE, lit |-> nDBa],
            svc |-> [anchored |-> TRUE, lit |-> sPDB]]>>
    ELSE IF c = "C"
    THEN <<[label |-> "grp1", host |-> [anchored |-> TRUE, lit |-> nW], svc |-> NoPattern],
           [label |-> "grp2", host |-> NoPattern, svc |-> NoPattern]>>
    ELSE IF c = DupCfg
    THEN <<[label |-> "grp1", host |-> [anchored |-> TRUE, lit |-> nW], svc |-> NoPattern],
           [label |-> "grp2", host |-> [anchored |-> TRUE, lit |-> nDBa],
            svc |-> [anchored |-> TRUE, lit |-> sPDB]],
           [label |-> "grp3", host |-> [anchored |-> TRUE, lit |-> nW], svc |-> NoPattern],
           [label |-> "grp4", host |-> [anchored |-> TRUE, lit |-> nDBa],
            svc |-> [anchored |-> TRUE, lit |-> sPDB]]>>
    ELSE <<[label |-> "grp1", host |-> [anchored |-> TRUE, lit |-> sPDB], svc |-> NoPattern]>>

\* --display_service_name of the rule
sRule == <<"m">>

\* cmd_line_hash of an argument list with --dependency_detection
\* search_child, whose target list begins with the host of the rule
SelfCfg == "S"

\* Env after parse_args for the argument lists
CfgOf(c) ==
    IF c = "A"
    THEN [my_host_name |-> nDB, my_svc_name |-> sRule,
          monitor_host |-> nDB, maintenance_by |-> "host",
          dependency_detection |-> "fully_automated", case_insensitive |-> FALSE,
          hostname_boundary_match |-> TRUE, manual_targets |-> <<>>,
          default_downtime |-> 30]
    ELSE IF c = SelfCfg
    THEN [my_host_name |-> nDB, my_svc_name |-> sRule,
          monitor_host |-> nDB, maintenance_by |-> "host",
          dependency_detection |-> "search_child", case_insensitive |-> FALSE,
          hostname_boundary_match |-> TRUE, manual_targets |-> <<>>,
          default_downtime |-> 30]
    ELSE [my_host_name |-> nDB, my_svc_name |-> sRule,
          monitor_host |-> nDB, maintenance_by |-> "host",
          dependency_detection |-> "specify_targets", case_insensitive |-> FALSE,
          hostname_boundary_match |-> TRUE,
          manual_targets |-> ManualOf(c),
          default_downtime |-> 30]

HASH_ID == <<"check_auto_downtimes">>

\* hashlib.sha1(s).hexdigest()[:12]: the digest is written as the string it
\* is the digest of, chars is the number of hex digits kept
Sha1Prefix(s) == [sha1 |-> s, chars |-> 12]

\* a hash that also depends on the dependency detection mode
CreateHashOfMode(e) ==
    Sha1Prefix(HASH_ID \o e.my_host_name \o e.my_svc_name \o <<e.dependency_detection>>)

\* Downtimes._create_hash()[0], which is Downtimes.get_hash()
CreateHash(e) == Sha1Prefix(HASH_ID \o e.my_host_name \o e.my_svc_name)

\* a comment without "MAINT#" and a hash
NoHash == [sha1 |-> <<>>, chars |-> 0]

\* a downtime an operator schedules on the monitored host
ForeignDowntime ==
    [host |-> nDB, svc |-> NoSvc, start |-> 0, end |-> 2 * MaxTime, own |-> FALSE,
     hash |-> NoHash]

\* InfoCache.get_cache_file_time
GetCacheFileTime(file, now) ==
    IF file.exists
    THEN [has |-> TRUE, ft |-> file.mtime, expired |-> now - file.mtime >= MaxCacheAge]
    ELSE [has |-> FALSE, ft |-> 0, expired |-> TRUE]

\* a comparison of fingerprints that accepts every state
CfgHashAlwaysMatches(data_hash, cfg_hash) == TRUE

\* LocalStateCache.load: data._cfg_hash != cfg_hash
CfgHashMatches(data_hash, cfg_hash) == data_hash = cfg_hash

NotLoaded == [found |-> FALSE, data |-> EmptyState]

\* a load that looks at the fingerprint only
LocalStateLoadOfAnyAge(file, has_info, info_cache_file_time, dt_dur_mins, cfg_hash, now) ==
    IF file.exists /\ CfgHashMatches(file.data.cfg_hash, cfg_hash)
    THEN [found |-> TRUE, data |-> file.data]
    ELSE NotLoaded

\* a load that refreshes the short-lived data already at one third of the
\* downtime duration
LocalStateLoadRefreshingEarly(file, has_info, info_cache_file_time, dt_dur_mins, cfg_hash, now) ==
    LET data == file.data
        refresh == \/ data.short_lived_refresh = NoTs
                   \/ now - data.short_lived_refresh >= (60 * dt_dur_mins) \div 3
        data2 == IF refresh
                 THEN [data EXCEPT !.short_lived_refresh = now,
                                   !.normal_check_interval = NoInterval]
                 ELSE data
    IN IF ~file.exists THEN NotLoaded
       ELSE IF ~(/\ now - file.mtime < MaxCacheAge
                 /\ has_info
                 /\ file.mtime >= info_cache_file_time) THEN NotLoaded
       ELSE IF ~CfgHashMatches(data.cfg_hash, cfg_hash) THEN NotLoaded
       ELSE IF data2.last_update_ts # NoTs /\ now - data2.last_update_ts > MaxCacheAge
            THEN NotLoaded
       ELSE [found |-> TRUE, data |-> data2]

\* LocalStateCache.load; has_info is FALSE for info_cache_file_time None
LocalStateLoad(file, has_info, info_cache_file_time, dt_dur_mins, cfg_hash, now) ==
    LET data == file.data
        refresh == \/ data.short_lived_refresh = NoTs
                   \/ now - data.short_lived_refresh > (60 * dt_dur_mins) \div 3
        data2 == IF refresh
                 THEN [data EXCEPT !.short_lived_refresh = now,
                                   !.normal_check_interval = NoInterval]
                 ELSE data
    IN IF ~file.exists THEN NotLoaded
       ELSE IF ~(/\ now - file.mtime < MaxCacheAge
                 /\ has_info
                 /\ file.mtime >= info_cache_file_time) THEN NotLoaded
       ELSE IF ~CfgHashMatches(data.cfg_hash, cfg_hash) THEN NotLoaded
       ELSE IF data2.last_update_ts # NoTs /\ now - data2.last_update_ts > MaxCacheAge
            THEN NotLoaded
       ELSE [found |-> TRUE, data |-> data2]

\* Downtimes.find(curr_dts, host_name, svc_name, dt_hash): an empty svc_name
\* does not filter
Find(curr, host_name, svc_name) ==
    {d \in curr : /\ d.own
                  /\ d.host = host_name
                  /\ (svc_name = NoSvc \/ d.svc = svc_name)}

\* LqAPI.get_downtimes(host_name, None, None): the host downtimes of the host
LqGetDowntimes(all, host_name) ==
    {d \in all : d.host = host_name /\ d.svc = NoSvc}

\* _needs_maint_by_host with monitor_dts, monitor_host = my_host_name and no
\* monitor_states
NeedsMaintenance(all, e) == LqGetDowntimes(all, e.monitor_host) # {}

\* cleanup that ignores the flag
AlwaysNeedsCleanup(no_active_maint) == TRUE

\* main: the else branch of "local_state.no_active_maint is True"
NeedsCleanup(no_active_maint) == no_active_maint # "True"

\* main: the first loop over tgt_list
NeedingReadd(curr, tgts, now, nci) ==
    \E i \in 1..Len(tgts) :
        LET f == Find(curr, tgts[i].host, tgts[i].svc)
        IN Cardinality(f) = 1 /\ \E d \in f : now > d.end - 2 * nci

\* entries of host_svc_list that carry the label of the target
HostSvcListLabelled(curr, tgts, needing_readd) ==
    LET Entry(i) ==
            LET n == Cardinality(Find(curr, tgts[i].host, tgts[i].svc))
            IN IF n > 1 THEN {}
               ELSE IF n = 1
                    THEN IF needing_readd
                         THEN {[op |-> "readd", host |-> tgts[i].host, svc |-> tgts[i].svc,
                                label |-> tgts[i].label]}
                         ELSE {}
               ELSE {[op |-> "add", host |-> tgts[i].host, svc |-> tgts[i].svc,
                      label |-> tgts[i].label]}
    IN UNION {Entry(i) : i \in 1..Len(tgts)}

\* main: the second loop over tgt_list; set(host_svc_list)
HostSvcList(curr, tgts, needing_readd) ==
    LET Entry(i) ==
            LET n == Cardinality(Find(curr, tgts[i].host, tgts[i].svc))
            IN IF n > 1 THEN {}
               ELSE IF n = 1
                    THEN IF needing_readd
                         THEN {[op |-> "readd", host |-> tgts[i].host, svc |-> tgts[i].svc]}
                         ELSE {}
               ELSE {[op |-> "add", host |-> tgts[i].host, svc |-> tgts[i].svc]}
    IN UNION {Entry(i) : i \in 1..Len(tgts)}

\* a split that puts the whole list into one chunk
OneChunk(lst, n) == IF Len(lst) = 0 THEN <<>> ELSE <<lst>>

\* chunks(lst, n) of auto_downtimes_common
RECURSIVE Chunks(_, _)
Chunks(lst, n) ==
    IF Len(lst) = 0 THEN <<>>
    ELSE IF Len(lst) <= n THEN <<lst>>
    ELSE <<SubSeq(lst, 1, n)>> \o Chunks(SubSeq(lst, n + 1, Len(lst)), n)

\* RestAPI.set_downtimes: the POSTs it makes for a list of targets, host
\* scope first, one per chunk
Posts(comment, entries) ==
    LET host_targets == SetToSeq({<<x.host, x.svc>> : x \in {y \in entries : y.svc = NoSvc}})
        svc_targets == SetToSeq({<<x.host, x.svc>> : x \in {y \in entries : y.svc # NoSvc}})
        hc == Chunks(host_targets, MAX_QUERY_BATCH_SIZE)
        sc == Chunks(svc_targets, MAX_QUERY_BATCH_SIZE)
    IN [i \in 1..Len(hc) |-> [op |-> "set_downtimes", type |-> "host",
                                comment |-> comment, targets |-> hc[i]]]
       \o [i \in 1..Len(sc) |-> [op |-> "set_downtimes", type |-> "service",
                                   comment |-> comment, targets |-> sc[i]]]

\* the objects of the monitoring core a query for target t matches
Monitored(t) ==
    IF t[2] = NoSvc THEN t[1] \in HostNameSet
    ELSE [name |-> t[2], host |-> t[1]] \in Services

\* the core's handling of one host_by_query / service_by_query POST
ApplySet(all, post, start, end) ==
    all \cup {[host |-> t[1], svc |-> t[2], start |-> start, end |-> end, own |-> TRUE,
                hash |-> post.comment] :
                 t \in {u \in Range(post.targets) : Monitored(u)}}

\* a delete by keyword that removes nothing
DeleteNothing(all, kw, limited, until_start_time) == all

\* a delete by keyword that takes no limit of the start time into account
DeleteByKeywordOfAnyStart(all, kw, limited, until_start_time) ==
    {d \in all : d.hash # kw}

\* the core's handling of RestAPI.delete_downtimes_by_keyword("MAINT#" + hash,
\* until_start_time); limited is FALSE for until_start_time None
DeleteByKeyword(all, kw, limited, until_start_time) ==
    {d \in all : ~(d.hash = kw /\ (~limited \/ d.start <= until_start_time))}

DeleteCall(limited) ==
    [op |-> "delete_downtimes_by_keyword",
     type |-> IF limited THEN "until_start_time" ELSE "all",
     targets |-> <<>>]

Resting == {"idle"}

\* the positions at which the process has called do_exit
Exited == {"done", "crash", "nocache"}

\* do_exit(code): the summary line is printed and the process exits
DoExit(r, pc, code, cause) == [r EXCEPT !.pc = pc, !.exit = code, !.cause = cause]

InitMain ==
    /\ TgtIdle
    /\ MainIdle
    /\ c_now = 0
    /\ c_file \in {NoFile} \cup {FileOf(0 - a, TRUE) : a \in InitialSnapshotAges}
    /\ c_lock = Unlocked
    /\ c_proc = [p \in Procs |-> IdleProc]
    /\ c_hist = NoRebuild

\* the scheduler starts the check with one of the argument lists; run.quiet
\* records that it repeats the completed previous invocation, nothing having
\* changed in between
Begin(c) ==
    /\ run.pc \in Resting
    /\ run.n < MaxRuns
    /\ run' = [NoRun EXCEPT !.pc = "state", !.n = run.n + 1, !.cfg = c,
                             !.quiet = (quiet /\ c = run.cfg),
                             !.prev = run.prev,
                             !.dts0 = dts, !.state0 = state_file]
    /\ quiet' = FALSE
    /\ UNCHANGED <<tlVars, cVars, dts, state_file>>

\* _get_local_state
GetLocalState ==
    /\ run.pc = "state"
    /\ LET e == CfgOf(run.cfg)
           g == GetCacheFileTime(c_file, c_now)
           r == LocalStateLoad(state_file, g.has /\ ~g.expired, g.ft,
                               e.default_downtime, run.cfg, c_now)
           lost == IF r.found THEN r.data ELSE EmptyState
           fetch == lost.normal_check_interval = NoInterval
       IN run' = [run EXCEPT
                    !.pc = "tgt",
                    !.lost = [lost EXCEPT !.normal_check_interval =
                                            IF fetch THEN 60 * CheckIntervalMinutes ELSE @],
                    !.expired = g.expired,
                    !.mismatch = state_file.exists /\ state_file.data.cfg_hash # run.cfg,
                    !.accepted = r.found,
                    !.flag_loaded = lost.no_active_maint,
                    !.nci_fetched = fetch]
    /\ UNCHANGED <<tlVars, cVars, dts, state_file, quiet>>

\* _ensure_tgt_list: the cached list, or InfoCache.load (with the rebuild
\* and its sleep when the file is not usable) followed by safe_create
EnsureTgtList ==
    /\ run.pc = "tgt"
    /\ LET e == CfgOf(run.cfg)
           sc == SafeCreate(e, e.maintenance_by, MainCache)
           Resolved(src, age) ==
               IF sc.exit = "return"
               THEN [run EXCEPT !.pc = "decide", !.src = src, !.snap_age = age,
                                !.lost.has_tgt = TRUE, !.lost.tgt_list = sc.tgts]
               ELSE DoExit([run EXCEPT !.src = src, !.snap_age = age], "crash",
                           NAGRES_CRASH,
                           IF sc.exit = "crash" THEN "config" ELSE "exception")
       IN IF run.lost.has_tgt
          THEN /\ run' = [run EXCEPT !.pc = "decide", !.src = "state"]
               /\ UNCHANGED <<c_now, c_file>>
          ELSE IF SnapshotFresh(c_file, c_now) /\ c_file.complete
          THEN /\ run' = Resolved("file", c_now - c_file.mtime)
               /\ UNCHANGED <<c_now, c_file>>
          ELSE IF LockGranted(c_lock)
          THEN /\ c_now' = c_now + SLEEP_BEFORE_WRITE
               /\ c_file' = FileOf(c_now', TRUE)
               /\ run' = Resolved("rebuilt", 0)
          ELSE /\ run' = DoExit([run EXCEPT !.src = "lock_held"], "nocache",
                                 NAGRES_OK, "cache")
               /\ UNCHANGED <<c_now, c_file>>
    /\ UNCHANGED <<tlVars, c_lock, c_proc, c_hist, dts, state_file, quiet>>

\* InfoCache._update: get_hosts or get_services raises inside the lock; the
\* exception is re-raised, reaches the top-level handler and the process
\* exits before the sleep and the write
InventoryFails ==
    /\ run.pc = "tgt"
    /\ ~run.lost.has_tgt
    /\ ~(SnapshotFresh(c_file, c_now) /\ c_file.complete)
    /\ LockGranted(c_lock)
    /\ run' = DoExit([run EXCEPT !.src = "inventory_failed"], "crash",
                     NAGRES_CRASH, "exception")
    /\ UNCHANGED <<tlVars, cVars, dts, state_file, quiet>>

\* main from _needs_maintenance to the computation of add_targets
Decide ==
    /\ run.pc = "decide"
    /\ LET e == CfgOf(run.cfg)
           m == NeedsMaintenance(dts, e)
           tgts == run.lost.tgt_list
           readd == NeedingReadd(dts, tgts, c_now, run.lost.normal_check_interval)
           list == HostSvcList(dts, tgts, readd)
           seen == [run EXCEPT !.maintenance = m, !.curr = dts, !.add_start = c_now]
       IN IF ~m
          THEN run' = [seen EXCEPT
                         !.pc = IF NeedsCleanup(run.lost.no_active_maint)
                                THEN "remove" ELSE "write"]
          ELSE run' = [seen EXCEPT
                         !.lost.no_active_maint = "False",
                         !.needing_readd = readd,
                         !.pending = Posts(CreateHash(e), list),
                         !.remove_old = \E x \in list : x.op = "readd",
                         !.pc = IF list = {} THEN "write" ELSE "set"]
    /\ UNCHANGED <<tlVars, cVars, dts, state_file, quiet>>

HTTP_NO_CONTENT == 204

HTTP_UNPROCESSABLE == 422

HTTP_SERVER_ERROR == 500

\* the answer of the monitoring core to a host_by_query / service_by_query
\* POST it accepts: 204, or 422 "... not match any ..." when the query matches
\* no object
CoreAnswer(post) ==
    IF \E u \in Range(post.targets) : Monitored(u)
    THEN [code |-> HTTP_NO_CONTENT, no_match |-> FALSE]
    ELSE [code |-> HTTP_UNPROCESSABLE, no_match |-> TRUE]

\* answers with which the core or the connection refuses a POST
ErrorAnswers ==
    {[code |-> HTTP_SERVER_ERROR, no_match |-> FALSE],
     [code |-> HTTP_UNPROCESSABLE, no_match |-> FALSE]}

\* a handling of the answer that takes every answer but 204 as an error
HandleSetResponseStrict(resp) ==
    IF resp.code # HTTP_NO_CONTENT THEN "raise" ELSE "continue"

\* RestAPI.set_downtimes: what the loop does with the answer to one chunk
HandleSetResponse(resp) ==
    IF resp.code = HTTP_UNPROCESSABLE /\ resp.no_match THEN "continue"
    ELSE IF resp.code # HTTP_NO_CONTENT THEN "raise"
    ELSE "continue"

\* RestAPI.set_downtimes: one POST and the handling of its answer; an error
\* goes through _raise_error to the top-level handler, exit 3
SetChunk ==
    /\ run.pc = "set"
    /\ \E resp \in {CoreAnswer(Head(run.pending))} \cup ErrorAnswers :
          LET post == Head(run.pending)
              e == CfgOf(run.cfg)
          IN IF HandleSetResponse(resp) = "raise"
             THEN /\ dts' = dts
                  /\ run' = [DoExit(run, "crash", NAGRES_CRASH, "exception")
                               EXCEPT !.resp = resp]
             ELSE /\ dts' = IF resp.code = HTTP_NO_CONTENT
                            THEN ApplySet(dts, post, run.add_start,
                                          run.add_start + 60 * e.default_downtime)
                            ELSE dts
                  /\ run' = [run EXCEPT
                               !.calls = Append(@, post),
                               !.pending = Tail(@),
                               !.resp = resp,
                               !.pc = IF Tail(run.pending) # <<>> THEN "set"
                                      ELSE IF run.remove_old THEN "delete_old"
                                      ELSE "write"]
    /\ UNCHANGED <<tlVars, cVars, state_file, quiet>>

\* Downtimes.add_all with remove_existing: the delete of the older downtimes
\* (before is taken from start, the sleep of 2 s does not move it)
DeleteOld ==
    /\ run.pc = "delete_old"
    /\ dts' = DeleteByKeyword(dts, CreateHash(CfgOf(run.cfg)), TRUE,
                              run.add_start - OLD_DOWNTIME_MARGIN)
    /\ run' = [run EXCEPT !.calls = Append(@, DeleteCall(TRUE)), !.pc = "write"]
    /\ UNCHANGED <<tlVars, cVars, state_file, quiet>>

\* Downtimes.remove_all_own and the flag that follows it
RemoveAllOwn ==
    /\ run.pc = "remove"
    /\ dts' = DeleteByKeyword(dts, CreateHash(CfgOf(run.cfg)), FALSE, 0)
    /\ run' = [run EXCEPT !.calls = Append(@, DeleteCall(FALSE)),
                          !.lost.no_active_maint = "True",
                          !.pc = "write"]
    /\ UNCHANGED <<tlVars, cVars, state_file, quiet>>

\* the pending delete is answered with an error status: _raise_error,
\* top-level handler, exit 3
ApiFails ==
    /\ run.pc \in {"delete_old", "remove"}
    /\ run' = DoExit(run, "crash", NAGRES_CRASH, "exception")
    /\ UNCHANGED <<tlVars, cVars, dts, state_file, quiet>>

\* a write that replaces the fingerprint of the state
LocalStateWriteAnyHash(local_state, cfg_hash, now) ==
    [raised |-> FALSE,
     data |-> [local_state EXCEPT
                 !.cfg_hash = cfg_hash,
                 !.last_update_ts = IF @ = NoTs THEN now ELSE @]]

\* a write that stamps the state with the time of every write
LocalStateWriteStamps(local_state, cfg_hash, now) ==
    IF local_state.cfg_hash # "None" /\ cfg_hash # local_state.cfg_hash
    THEN [raised |-> TRUE, data |-> local_state]
    ELSE [raised |-> FALSE,
          data |-> [local_state EXCEPT !.cfg_hash = cfg_hash, !.last_update_ts = now]]

\* LocalStateCache.write up to the open of the file: the exception for a
\* fingerprint that differs from the one in the state, else the state as
\* it is pickled
LocalStateWrite(local_state, cfg_hash, now) ==
    IF local_state.cfg_hash # "None" /\ cfg_hash # local_state.cfg_hash
    THEN [raised |-> TRUE, data |-> local_state]
    ELSE [raised |-> FALSE,
          data |-> [local_state EXCEPT
                      !.cfg_hash = cfg_hash,
                      !.last_update_ts = IF @ = NoTs THEN now ELSE @]]

\* LocalStateCache.write and do_exit(NAGRES_OK)
WriteState ==
    /\ run.pc = "write"
    /\ IF LocalStateWrite(run.lost, run.cfg, c_now).raised
       THEN /\ run' = DoExit(run, "crash", NAGRES_CRASH, "exception")
            /\ UNCHANGED <<state_file, quiet>>
       ELSE LET data == LocalStateWrite(run.lost, run.cfg, c_now).data
            IN /\ state_file' = [exists |-> TRUE, mtime |-> c_now, data |-> data]
               /\ run' = DoExit([run EXCEPT !.lost = data], "done", NAGRES_OK, "none")
               /\ quiet' = TRUE
    /\ UNCHANGED <<tlVars, cVars, dts>>

\* the process is gone; what the next invocation can find of it is the
\* monitoring core and the files.  run.prev records how the last invocation
\* ended, "partial" for one that failed after a call that changed downtimes
\* and that no completed invocation has followed
ProcessEnds ==
    /\ run.pc \in Exited
    /\ run' = [NoRun EXCEPT
                 !.n = run.n, !.cfg = run.cfg,
                 !.prev = IF run.pc = "crash" /\ run.calls # <<>> THEN "partial"
                          ELSE IF run.pc # "done" /\ run.prev = "partial" THEN "partial"
                          ELSE run.pc]
    /\ UNCHANGED <<tlVars, cVars, dts, state_file, quiet>>

\* time passes between two invocations; downtimes that have ended disappear
MainTick ==
    /\ run.pc \in Resting
    /\ \E d \in MainTickSteps :
          /\ c_now + d <= MaxTime
          /\ c_now' = c_now + d
    /\ dts' = {x \in dts : x.end > c_now'}
    /\ quiet' = (quiet /\ dts' = dts)
    /\ UNCHANGED <<tlVars, c_file, c_lock, c_proc, c_hist, state_file, run>>

\* an operator schedules or cancels a downtime on the monitored host
ForeignToggle ==
    /\ run.pc \in Resting
    /\ dts' = IF ForeignDowntime \in dts
              THEN dts \ {ForeignDowntime} ELSE dts \cup {ForeignDowntime}
    /\ quiet' = FALSE
    /\ UNCHANGED <<tlVars, cVars, state_file, run>>

\* the check of another rule finds the snapshot unusable and rebuilds it
OtherRebuild ==
    /\ run.pc \in Resting
    /\ ~SnapshotFresh(c_file, c_now)
    /\ LockGranted(c_lock)
    /\ c_file' = FileOf(c_now, TRUE)
    /\ UNCHANGED <<tlVars, c_now, c_lock, c_proc, c_hist, mVars>>

\* the check of another rule, finding the snapshot unusable, takes the
\* rebuild lock, or drops it
OtherLock ==
    /\ run.pc \in Resting
    /\ c_lock = Unlocked => ~SnapshotFresh(c_file, c_now)
    /\ \E p \in Procs :
          c_lock' = IF c_lock = Unlocked THEN p ELSE Unlocked
    /\ UNCHANGED <<tlVars, c_now, c_file, c_proc, c_hist, mVars>>

Next ==
    \/ \E c \in Cfgs : Begin(c)
    \/ GetLocalState
    \/ EnsureTgtList
    \/ Decide
    \/ SetChunk
    \/ DeleteOld
    \/ RemoveAllOwn
    \/ ApiFails
    \/ WriteState
    \/ InventoryFails
    \/ ProcessEnds
    \/ MainTick
    \/ ForeignToggle
    \/ OtherRebuild
    \/ OtherLock

Spec == InitMain /\ [][Next]_vars

\* the rule's downtime of target t among a set of downtimes
DowntimesOf(all, t) == {d \in all : d.own /\ d.host = t.host /\ d.svc = t.svc}

\* C1: an invocation that follows a completed invocation, with no change of
\* host/service state or downtimes in between, issues no set_downtimes and
\* no delete call, whether maintenance is required or not.
C1_SecondRunSilent ==
    (run.pc = "done" /\ run.quiet) => run.calls = <<>>

\* C1 (amended): such an invocation issues no mutation call provided it
\* loads the local state the previous invocation persisted and, when
\* maintenance is required, every resolved target has a downtime with the
\* rule's hash and no such downtime is within two check intervals of its end.
C1_SecondRunSilentWithState ==
    (/\ run.pc = "done"
     /\ run.quiet
     /\ run.accepted
     /\ run.maintenance =>
           /\ \A i \in 1..Len(run.lost.tgt_list) :
                 DowntimesOf(run.curr, run.lost.tgt_list[i]) # {}
           /\ \A d \in run.curr :
                 d.own => run.add_start <= d.end - 2 * run.lost.normal_check_interval)
    => run.calls = <<>>

\* a second invocation during maintenance that found every target covered
C1_Witness ==
    /\ run.pc = "done"
    /\ run.quiet
    /\ run.accepted
    /\ run.maintenance
    /\ run.lost.tgt_list # <<>>
    /\ \A i \in 1..Len(run.lost.tgt_list) :
          DowntimesOf(run.curr, run.lost.tgt_list[i]) # {}
    /\ run.calls = <<>>

\* C2: when maintenance is required and a target's single downtime needs
\* extension, the invocation removes every downtime of the rule that existed
\* before it and leaves every resolved target with a downtime it has just set.
C2_ExtensionReplacesAll ==
    (run.pc = "done" /\ run.maintenance /\ run.needing_readd) =>
        /\ \A d \in dts : d.own => d \notin run.curr
        /\ \A i \in 1..Len(run.lost.tgt_list) :
              DowntimesOf(dts, run.lost.tgt_list[i]) \ run.curr # {}

\* C3: InfoCache.load uses the snapshot file only when it is younger than
\* MAX_CACHE_AGE and otherwise calls the rebuild; with the snapshot file
\* expired or missing the persisted state, target list included, is discarded.
C3_NoStaleSnapshot ==
    /\ run.src = "file" => run.snap_age < MaxCacheAge
    /\ (run.pc \notin {"idle", "state"} /\ run.expired) =>
          (~run.accepted /\ run.src # "state")

\* an invocation with a persisted state and an expired snapshot rebuilt it
C3_Witness ==
    /\ run.pc = "done"
    /\ run.n > 1
    /\ run.expired
    /\ run.src = "rebuilt"

\* C7: a persisted state whose fingerprint differs from the invocation's is
\* discarded as a whole: the flag is unknown, the check interval is fetched
\* again and the target list is resolved again from the current arguments.
C7_MismatchDiscardsState ==
    (run.pc \notin {"idle", "state"} /\ run.mismatch) =>
        /\ ~run.accepted
        /\ run.flag_loaded = "None"
        /\ run.nci_fetched
        /\ run.src # "state"
        /\ run.lost.has_tgt =>
              run.lost.tgt_list =
                  SafeCreate(CfgOf(run.cfg), CfgOf(run.cfg).maintenance_by, MainCache).tgts

\* an invocation completed on a fresh state file written for other arguments
C7_Witness ==
    /\ run.pc = "done"
    /\ run.mismatch
    /\ ~run.expired
    /\ run.src = "file"

\* C10: an invocation that finds maintenance not required and the flag false
\* or unknown issues exactly one delete by keyword and nothing else; when it
\* has completed no downtime of the rule remains and the flag is true.
C10_CleanupOnce ==
    (run.pc = "done" /\ ~run.maintenance /\ run.flag_loaded # "True") =>
        /\ run.calls = <<DeleteCall(FALSE)>>
        /\ \A d \in dts : ~d.own
        /\ run.lost.no_active_maint = "True"
        /\ state_file.data.no_active_maint = "True"

\* maintenance has ended: the invocation loaded the flag false and removed
\* downtimes of the rule
C10_Witness ==
    /\ run.pc = "done"
    /\ ~run.maintenance
    /\ run.flag_loaded = "False"
    /\ \E d \in run.curr : d.own

\* C11: an invocation that finds maintenance not required and loads the flag
\* true issues no set and no delete call, leaves the downtimes as they were
\* and persists the flag as true.
C11_NoCleanupWhenFlagTrue ==
    (run.pc = "done" /\ ~run.maintenance /\ run.flag_loaded = "True") =>
        /\ run.calls = <<>>
        /\ dts = run.dts0
        /\ state_file.data.no_active_maint = "True"

\* such an invocation completed while downtimes existed in the core
C11_Witness ==
    /\ run.pc = "done"
    /\ ~run.maintenance
    /\ run.flag_loaded = "True"
    /\ run.dts0 # {}

\* the positions of an invocation after main has looked at the downtimes
Decided == {"set", "delete_old", "remove", "write", "done", "crash"}

\* C12: during maintenance a target that has more than one downtime with
\* the rule's hash is skipped: the invocation adds no downtime for it and
\* deletes none of its downtimes, also when another target is extended.
C12_SkippedTargetUntouched ==
    (run.pc \in Decided /\ run.maintenance) =>
        \A i \in 1..Len(run.lost.tgt_list) :
            LET t == run.lost.tgt_list[i]
            IN Cardinality(DowntimesOf(run.curr, t)) > 1 =>
                  DowntimesOf(dts, t) = DowntimesOf(run.curr, t)

\* C13: the downtimes main matches to a target are exactly the downtimes
\* with the target's host, the target's service (host downtimes only for a
\* host target) and the rule's hash; a service downtime on a host is no
\* match for the host target of that host.
C13_MatchIsExact ==
    (run.pc \in Decided /\ run.maintenance) =>
        \A i \in 1..Len(run.lost.tgt_list) :
            LET t == run.lost.tgt_list[i]
            IN Find(run.curr, t.host, t.svc) = DowntimesOf(run.curr, t)

\* C14: when an invocation that found maintenance required has completed,
\* every resolved target that exists in the monitoring and had at most one
\* downtime with the rule's hash before the invocation has a downtime of its
\* own scope with the hash that ends in the future.
C14_TargetsCovered ==
    (run.pc = "done" /\ run.maintenance) =>
        \A i \in 1..Len(run.lost.tgt_list) :
            LET t == run.lost.tgt_list[i]
            IN (Monitored(<<t.host, t.svc>>)
                /\ Cardinality(DowntimesOf(run.curr, t)) <= 1) =>
                   \E d \in DowntimesOf(dts, t) : d.end > c_now

\* C15: the first invocation to complete after one that aborted with part
\* of its calls applied leaves the rule's downtimes as required: every
\* resolved target that exists covered when maintenance is required, no
\* downtime with the rule's hash when it is not.
C15_SelfCorrects ==
    (run.pc = "done" /\ run.prev = "partial") =>
        IF run.maintenance
        THEN \A i \in 1..Len(run.lost.tgt_list) :
                LET t == run.lost.tgt_list[i]
                IN Monitored(<<t.host, t.svc>>) =>
                      \E d \in DowntimesOf(dts, t) : d.end > c_now
        ELSE \A d \in dts : ~d.own

\* C16: an invocation that finds no usable snapshot and whose rebuild fails,
\* because the lock is held or because an inventory query fails, ends with
\* the cache-unavailable outcome and exit code OK and has changed no downtime.
C16_RebuildFailureIsNotFatal ==
    run.src \in {"lock_held", "inventory_failed"} =>
        /\ run.pc = "nocache"
        /\ run.exit = NAGRES_OK
        /\ run.calls = <<>>
        /\ dts = run.dts0

\* C17: a process whose rebuild finds the lock held by another process does
\* not wait for it: its one call of acquire returns, refused, while the
\* holder keeps the lock; after the refusal it makes no further attempt and
\* it reaches its exit, also when the holder never releases the lock.
C17_NeverWaitsForLock ==
    /\ \A p \in Procs :
          (c_proc[p].pc = "update" /\ c_lock \notin {Unlocked, p})
             ~> (c_proc[p].pc \in {"nolock", "locked", "killed"})
    /\ \A p \in Procs : (c_proc[p].pc = "nolock") ~> (c_proc[p].pc = "idle")
    /\ [][\A p \in Procs :
             c_proc[p].pc = "nolock" => c_proc'[p].pc \in {"nolock", "idle"}]_vars

\* a process has been refused the lock that another process holds
C17_Witness ==
    \E p \in Procs :
        /\ c_proc[p].pc = "nolock"
        /\ c_lock \notin {Unlocked, p}
        /\ c_proc[c_lock].pc \in {"locked", "built", "slept", "writing"}

\* C18: a configuration error ends the invocation with exit code CRITICAL;
\* exit code CRASH is returned only for an unhandled exception.
C18_ConfigErrorIsCritical ==
    /\ run.cause = "config" => run.exit = NAGRES_CRIT
    /\ run.exit = NAGRES_CRASH => run.cause = "exception"

\* a manual target list with a triple without host regex, or one that
\* resolves to no target at all
BadManualTargets(e) ==
    /\ e.dependency_detection = "specify_targets"
    /\ \/ \E i \in 1..Len(e.manual_targets) : e.manual_targets[i].host = NoPattern
       \/ \A i \in 1..Len(e.manual_targets) :
             AddManual(MainCache, e, e.manual_targets[i]) = <<>>

\* C19: in manual mode a triple with an empty host regex, or a list that
\* resolves to no target, ends the invocation as fatal once the targets are
\* resolved, and the invocation has set and deleted no downtime and has not
\* written the state file, also when an earlier triple resolved to targets.
C19_BadManualTargetsNoSideEffects ==
    (BadManualTargets(CfgOf(run.cfg)) /\ run.pc \notin {"idle", "state", "tgt"}) =>
        /\ run.pc \in {"crash", "nocache"}
        /\ run.src \in {"file", "rebuilt"} =>
              (run.cause = "config" /\ run.exit \notin {NoExit, NAGRES_OK})
        /\ run.calls = <<>>
        /\ dts = run.dts0
        /\ state_file = run.state0

\* the list's first triple resolves to host w, its second has no host regex;
\* the invocation found downtimes of the rule and a state file and ended
C19_Witness ==
    /\ run.cfg = "C"
    /\ run.cause = "config"
    /\ AddManual(MainCache, CfgOf("C"), CfgOf("C").manual_targets[1]) # <<>>
    /\ \E d \in dts : d.own
    /\ state_file.exists

\* the entries of a target list that carry a label
WithLabel(tgts, label) == SelectSeq(tgts, LAMBDA t : t.label = label)

\* C20: a manual triple with an empty service regex resolves to exactly one
\* host target for every host of the directory whose name matches the host
\* regex and to no service target; a triple with a service regex resolves
\* to exactly the (host, service) pairs whose service name matches it on
\* hosts whose name matches the host regex, and to no host target.
C20_ManualTripleResolution ==
    (/\ tl_out.op = "safe_create"
     /\ tl_env.dependency_detection = "specify_targets"
     /\ tl_out.exit = "return") =>
        \A i \in 1..Len(tl_env.manual_targets) :
            LET m == tl_env.manual_targets[i]
                ci == tl_env.case_insensitive
                got == WithLabel(tl_out.tgts, m.label)
                hosts == {tl_hosts[k].name : k \in 1..Len(tl_hosts)}
                Count(t) == Cardinality({j \in 1..Len(got) : got[j] = t})
            IN IF m.svc = NoPattern
               THEN /\ \A h \in hosts :
                          Count(Target(m.label, h, NoSvc)) =
                              IF PatternMatch(m.host, h, ci) THEN 1 ELSE 0
                    /\ \A j \in 1..Len(got) : got[j].svc = NoSvc /\ got[j].host \in hosts
               ELSE /\ {<<got[j].host, got[j].svc>> : j \in 1..Len(got)} =
                          {<<u.host, u.name>> :
                              u \in {v \in Services :
                                        /\ PatternMatch(m.svc, v.name, ci)
                                        /\ PatternMatch(m.host, v.host, ci)}}
                    /\ \A j \in 1..Len(got) : got[j].svc # NoSvc

\* a list with a host triple and a service triple resolved to targets of
\* both kinds, and a service triple whose host regex excludes the only
\* service its service regex matches resolved to nothing
C20_Witness ==
    /\ tl_out.op = "safe_create"
    /\ tl_env.dependency_detection = "specify_targets"
    /\ tl_out.exit = "return"
    /\ Len(tl_env.manual_targets) = 2
    /\ tl_env.manual_targets[2].host = [anchored |-> TRUE, lit |-> nW]
    /\ WithLabel(tl_out.tgts, "grp2") = <<>>
    /\ Len(WithLabel(tl_out.tgts, "grp1")) = 2

\* the LocalState _get_local_state builds when load returns nothing, with
\* the check interval it has just fetched
FreshState == [EmptyState EXCEPT !.normal_check_interval = 60 * CheckIntervalMinutes]

\* C21: LocalStateCache.load returns no state when the state file was
\* modified MAX_CACHE_AGE or more ago, or before the snapshot file was, or
\* when the snapshot file is missing or expired; the invocation then goes on
\* with an empty state and reuses no persisted field.
C21_StaleStateRejected ==
    (/\ run.pc = "tgt"
     /\ state_file.exists
     /\ \/ c_now - state_file.mtime >= MaxCacheAge
        \/ ~c_file.exists
        \/ c_now - c_file.mtime >= MaxCacheAge
        \/ state_file.mtime < c_file.mtime) =>
        /\ ~run.accepted
        /\ run.lost = FreshState
        /\ run.flag_loaded = "None"
        /\ run.nci_fetched

\* a state file of the same arguments, younger than MAX_CACHE_AGE, with a
\* usable snapshot that was rebuilt after the state was written
C21_Witness ==
    /\ run.pc = "tgt"
    /\ state_file.exists
    /\ state_file.data.cfg_hash = run.cfg
    /\ state_file.data.has_tgt
    /\ c_now - state_file.mtime < MaxCacheAge
    /\ c_file.exists
    /\ c_now - c_file.mtime < MaxCacheAge
    /\ state_file.mtime < c_file.mtime

(***************************************************************************)
(* State file specification: LocalStateCache.write applied to every small  *)
(* LocalState, fingerprint and state file                                  *)
(***************************************************************************)
\* the fingerprints a LocalState can carry
StateHashes == {"None"} \cup Cfgs

LocalStates ==
    {[EmptyState EXCEPT !.cfg_hash = h, !.no_active_maint = f,
                        !.last_update_ts = ts, !.normal_check_interval = nci] :
        h \in StateHashes, f \in {"None", "True", "False"},
        ts \in {NoTs, 0}, nci \in {NoInterval, 60 * CheckIntervalMinutes}}

StateFiles ==
    {NoStateFile}
    \cup {[exists |-> TRUE, mtime |-> 0,
           data |-> [EmptyState EXCEPT !.cfg_hash = h, !.no_active_maint = "False",
                                       !.last_update_ts = 0]] : h \in Cfgs}

\* main has reached its last statement with some LocalState in memory
InitWrite ==
    /\ TgtIdle
    /\ CacheIdle
    /\ dts = {}
    /\ quiet = FALSE
    /\ state_file \in StateFiles
    /\ \E l \in LocalStates, c \in Cfgs :
          run = [NoRun EXCEPT !.pc = "write", !.n = 1, !.cfg = c, !.lost = l,
                              !.state0 = state_file]

SpecWrite == InitWrite /\ [][WriteState]_vars

\* C22: LocalStateCache.write called with a fingerprint that differs from
\* the one set in the state raises, the invocation ends as fatal, the state
\* file is left as it was and the fingerprint of the state is not replaced.
C22_WriteConflictIsFatal ==
    [][(/\ run.pc = "write"
        /\ run.lost.cfg_hash \notin {"None", run.cfg}) =>
           /\ run'.pc = "crash"
           /\ run'.exit = NAGRES_CRASH
           /\ state_file' = state_file
           /\ run'.lost.cfg_hash = run.lost.cfg_hash]_vars

\* a write with the fingerprint of other arguments was refused while a
\* state file existed
C22_Witness ==
    /\ run.pc = "crash"
    /\ run.lost.cfg_hash \in Cfgs \ {run.cfg}
    /\ state_file.exists

(***************************************************************************)
(* Overlap specification: two invocations of one rule (the same name and   *)
(* the same arguments) as concurrent processes, each loading the state     *)
(* file, deciding, and writing it                                          *)
(***************************************************************************)
MaxOverlapTicks == 2

\* the arguments of the rule both processes run
OverlapCfg == "A"

\* a process that is not running; loaded and replaced are the state file as
\* the process found it when it loaded and when it wrote
OverlapIdle ==
    [pc |-> "idle", lost |-> EmptyState, loaded |-> NoStateFile, replaced |-> NoStateFile]

InitOverlap ==
    /\ TgtIdle
    /\ MainIdle
    /\ c_now = 0
    /\ c_file = FileOf(0, TRUE)
    /\ c_lock = Unlocked
    /\ c_hist = NoRebuild
    /\ c_proc = [p \in Procs |-> OverlapIdle]

\* _get_local_state of process p
OverlapLoad(p) ==
    /\ c_proc[p].pc = "idle"
    /\ LET e == CfgOf(OverlapCfg)
           g == GetCacheFileTime(c_file, c_now)
           r == LocalStateLoad(state_file, g.has /\ ~g.expired, g.ft,
                               e.default_downtime, OverlapCfg, c_now)
           lost == IF r.found THEN r.data ELSE EmptyState
       IN c_proc' = [c_proc EXCEPT ![p] =
                        [pc |-> "loaded",
                         lost |-> [lost EXCEPT !.normal_check_interval =
                                                 60 * CheckIntervalMinutes],
                         loaded |-> state_file,
                         replaced |-> NoStateFile]]
    /\ UNCHANGED <<tlVars, c_now, c_file, c_lock, c_hist, mVars>>

\* main of process p between _get_local_state and LocalStateCache.write, as
\* far as the LocalState goes: the target list is resolved when the state
\* has none, the flag follows the maintenance decision m
OverlapDecide(p, m) ==
    /\ c_proc[p].pc = "loaded"
    /\ LET e == CfgOf(OverlapCfg)
           tgts == SafeCreate(e, e.maintenance_by, MainCache).tgts
       IN c_proc' = [c_proc EXCEPT
                       ![p].pc = "decided",
                       ![p].lost.has_tgt = TRUE,
                       ![p].lost.tgt_list = IF c_proc[p].lost.has_tgt THEN @ ELSE tgts,
                       ![p].lost.no_active_maint = IF m THEN "False" ELSE "True"]
    /\ UNCHANGED <<tlVars, c_now, c_file, c_lock, c_hist, mVars>>

\* LocalStateCache.write of process p and the end of the process
OverlapWrite(p) ==
    /\ c_proc[p].pc = "decided"
    /\ LET w == LocalStateWrite(c_proc[p].lost, OverlapCfg, c_now)
       IN IF w.raised
          THEN /\ c_proc' = [c_proc EXCEPT ![p].pc = "crash"]
               /\ UNCHANGED state_file
          ELSE /\ state_file' = [exists |-> TRUE, mtime |-> c_now, data |-> w.data]
               /\ c_proc' = [c_proc EXCEPT ![p].pc = "written",
                                           ![p].lost = w.data,
                                           ![p].replaced = state_file]
    /\ UNCHANGED <<tlVars, c_now, c_file, c_lock, c_hist, dts, run, quiet>>

\* the process of p is gone
OverlapExit(p) ==
    /\ c_proc[p].pc \in {"written", "crash"}
    /\ c_proc' = [c_proc EXCEPT ![p] = OverlapIdle]
    /\ UNCHANGED <<tlVars, c_now, c_file, c_lock, c_hist, mVars>>

\* time passes
OverlapTick ==
    /\ c_now < MaxOverlapTicks * SLEEP_BEFORE_WRITE
    /\ c_now' = c_now + SLEEP_BEFORE_WRITE
    /\ UNCHANGED <<tlVars, c_file, c_lock, c_proc, c_hist, mVars>>

NextOverlap ==
    \/ \E p \in Procs :
          \/ OverlapLoad(p)
          \/ \E m \in BOOLEAN : OverlapDecide(p, m)
          \/ OverlapWrite(p)
          \/ OverlapExit(p)
    \/ OverlapTick

SpecOverlap == InitOverlap /\ [][NextOverlap]_vars

\* C23: when two invocations of a rule overlap, both loading the state
\* before either writes it, the later write detects it and ends as fatal:
\* a process that has written the state file has replaced the very file it
\* loaded, never one another process wrote in between.
C23_OverlapDetected ==
    \A p \in Procs :
        c_proc[p].pc = "written" => c_proc[p].replaced = c_proc[p].loaded

\* C24: every downtime an invocation of the rule has created carries the
\* same hash of 12 characters, the hash of the rule's host name and display
\* service name whatever the other arguments are, on host and service
\* targets and in every run; the removal of the rule's downtimes removes
\* the downtimes with this hash and no other.
C24_OneHashPerRule ==
    /\ \A d \in dts : \A c \in Cfgs :
          /\ d.own <=> d.hash = CreateHash(CfgOf(c))
          /\ d.own => d.hash.chars = 12
    /\ (run.pc \in {"write", "done"} /\ run.calls = <<DeleteCall(FALSE)>>) =>
          dts = {d \in run.curr : d.hash # CreateHash(CfgOf(run.cfg))}

\* a run of the rule has removed its downtimes, among them a host downtime
\* and a service downtime that were set at different times
C24_Witness ==
    /\ run.pc = "done"
    /\ run.calls = <<DeleteCall(FALSE)>>
    /\ \E d1, d2 \in run.curr :
          d1.own /\ d2.own /\ d1.svc = NoSvc /\ d2.svc # NoSvc /\ d1.start # d2.start

(***************************************************************************)
(* The maintenance decision: _needs_maintenance on the status of the       *)
(* monitoring core.  tl_env holds the Env fields the decision reads,       *)
(* tl_hosts one status row per host of the core, dts the scheduled         *)
(* downtimes, tl_out the tuple the decision returns.                       *)
(***************************************************************************)
sCPU2 == <<"c", "2">>

NoRegex == <<>>

\* --monitor_service_regex as given on the command line
sRegex == <<"m", "a", "i", "n", "t">>

\* the hosts the rule can monitor: the host it runs on, and another one
MonitorHosts == {nDB, nW}

\* Env after parse_args: trigger options
MaintEnvs ==
    {[my_host_name |-> nDB, monitor_host |-> mh, monitor_svc |-> ms,
      monitor_svc_regex |-> rx, monitor_dts |-> md, monitor_states |-> st] :
        mh \in MonitorHosts, ms \in {NoSvc, sCPU}, rx \in {NoRegex, sRegex},
        md \in BOOLEAN, st \in {<<>>, <<1>>, <<1, 2>>}}

\* status of one host and of its service sCPU in the core: the host state,
\* the service state, and whether the plugin output matches sRegex
StatusRows(h) ==
    {[name |-> h, state |-> hs, svc |-> sCPU, svc_state |-> ss, output_matches |-> om] :
        hs \in {0, 1}, ss \in {0, 2}, om \in BOOLEAN}

\* downtimes somebody scheduled on the hosts and their services
MaintDowntimes ==
    {[host |-> h, svc |-> s, start |-> 0, end |-> 2 * MaxTime, own |-> FALSE,
      hash |-> NoHash] : h \in MonitorHosts, s \in {NoSvc, sCPU, sCPU2}}

MaxMaintDowntimes == 2

\* _get_maint_by
GetMaintBy(e) ==
    IF e.monitor_svc = NoSvc /\ e.monitor_svc_regex = NoRegex THEN "host"
    ELSE IF e.monitor_svc # NoSvc THEN "service"
    ELSE "crash"

\* LqAPI.get_downtimes(host_name, service_name, None)
LqGetDowntimesBy(all, host_name, service_name) ==
    {d \in all :
        /\ d.host = host_name
        /\ service_name # NoSvc => (d.svc # NoSvc /\ Contains(d.svc, service_name))
        /\ service_name = NoSvc => d.svc = NoSvc}

\* Downtimes.find(curr_dts, host_name, svc_name) without comment_find
FindAny(curr, host_name, svc_name) ==
    {d \in curr : /\ d.host = host_name
                  /\ (svc_name = NoSvc \/ d.svc = svc_name)}

\* LqAPI.get_host_state / RestAPI.get_host_state
GetHostState(rows, name) ==
    LET found == {i \in 1..Len(rows) : rows[i].name = name}
    IN IF found = {} THEN NoExit ELSE rows[CHOOSE i \in found : TRUE].state

\* LqAPI.get_service_state / RestAPI.get_service_state
GetServiceState(rows, host_name, svc_name) ==
    LET found == {i \in 1..Len(rows) : rows[i].name = host_name /\ rows[i].svc = svc_name}
    IN IF found = {} THEN NoExit ELSE rows[CHOOSE i \in found : TRUE].svc_state

\* RestAPI.find_hosts_having_a_service(monitor_host, monitor_svc, regex)
FindHostsHavingAService(rows, host_name, svc_name) ==
    {rows[i].name : i \in {k \in 1..Len(rows) :
        /\ rows[k].name = host_name
        /\ rows[k].svc = svc_name
        /\ rows[k].output_matches}}

\* the state fallback both decisions end with
StateFallback(e, first, state) ==
    IF ~first.res /\ Len(e.monitor_states) > 0
    THEN [res |-> state # NoExit /\ state \in Range(e.monitor_states), reason |-> "State"]
    ELSE first

\* _needs_maint_by_host
NeedsMaintByHost(e, rows, all) ==
    LET first == IF e.monitor_dts
                 THEN [res |-> IF e.monitor_host = e.my_host_name
                               THEN LqGetDowntimesBy(all, e.monitor_host, NoSvc) # {}
                               ELSE FindAny(all, e.monitor_host, NoSvc) # {},
                       reason |-> "Downtime"]
                 ELSE [res |-> FALSE, reason |-> "?"]
        state == IF e.monitor_host = e.my_host_name
                 THEN GetHostState(rows, e.monitor_host)
                 ELSE GetHostState(rows, e.my_host_name)
    IN StateFallback(e, first, state)

\* _needs_maint_by_svc
NeedsMaintBySvc(e, rows, all) ==
    LET first ==
          IF e.monitor_dts /\ e.monitor_svc_regex = NoRegex
          THEN [res |-> IF e.monitor_host = e.my_host_name
                        THEN LqGetDowntimesBy(all, e.monitor_host, e.monitor_svc) # {}
                        ELSE FindAny(all, e.monitor_host, e.monitor_svc) # {},
                reason |-> "Downtime"]
          ELSE IF e.monitor_svc_regex # NoRegex
          THEN [res |-> FindHostsHavingAService(rows, e.monitor_host, e.monitor_svc) # {},
                reason |-> "Plugin-output"]
          ELSE [res |-> FALSE, reason |-> "?"]
    IN StateFallback(e, first, GetServiceState(rows, e.monitor_host, e.monitor_svc))

InitMaint ==
    /\ tl_env \in MaintEnvs
    /\ GetMaintBy(tl_env) # "crash"
    /\ \E r1 \in StatusRows(nDB), r2 \in StatusRows(nW) : tl_hosts = <<r1, r2>>
    /\ tl_out = [op |-> "none"]
    /\ CacheIdle
    /\ dts \in SUBSET MaintDowntimes
    /\ Cardinality(dts) <= MaxMaintDowntimes
    /\ state_file = NoStateFile
    /\ run = NoRun
    /\ quiet = FALSE

\* _get_maint_by and _needs_maintenance, as main calls them
DecideMaintenance ==
    /\ tl_out.op = "none"
    /\ tl_out' = [op |-> "needs_maintenance", by |-> GetMaintBy(tl_env)]
                 @@ (IF GetMaintBy(tl_env) = "host"
                     THEN NeedsMaintByHost(tl_env, tl_hosts, dts)
                     ELSE NeedsMaintBySvc(tl_env, tl_hosts, dts))
    /\ UNCHANGED <<tl_hosts, tl_env>>
    /\ UNCHANGED cVars
    /\ UNCHANGED mVars

SpecMaint == InitMaint /\ [][DecideMaintenance]_vars

\* the monitored reference (the host in host mode, the service in service
\* mode) is in a scheduled downtime
ReferenceInDowntime ==
    \E d \in dts : d.host = tl_env.monitor_host /\ d.svc = tl_env.monitor_svc

\* the plugin output of the monitored service matches the configured regex
OutputTrigger ==
    /\ tl_env.monitor_svc_regex # NoRegex
    /\ \E i \in 1..Len(tl_hosts) :
          /\ tl_hosts[i].name = tl_env.monitor_host
          /\ tl_hosts[i].svc = tl_env.monitor_svc
          /\ tl_hosts[i].output_matches

\* C25: when several triggers hold at once the reason reported is the one
\* of highest priority, downtime before plugin output before state: a
\* downtime of the reference, with downtime triggering enabled, is reported
\* as "Downtime" whatever the plugin output and the state are; a matching
\* plugin output is reported as "Plugin-output" when no downtime trigger
\* holds; "State" is reported only when neither of the two holds.
C25_ReasonPriority ==
    tl_out.op = "needs_maintenance" =>
        /\ (tl_env.monitor_dts /\ ReferenceInDowntime) =>
              (tl_out.res /\ tl_out.reason = "Downtime")
        /\ (OutputTrigger /\ ~(tl_env.monitor_dts /\ ReferenceInDowntime)) =>
              (tl_out.res /\ tl_out.reason = "Plugin-output")
        /\ (tl_out.res /\ tl_out.reason = "State") =>
              (~(tl_env.monitor_dts /\ ReferenceInDowntime) /\ ~OutputTrigger)

\* C26: in host mode with state triggers configured the decision follows
\* the state of the monitored reference host, also when that host is not
\* the host the rule runs on: with no downtime on the reference host,
\* maintenance is required exactly when the state code of the reference
\* host is one of the configured codes.
C26_StateOfMonitoredHost ==
    (/\ tl_out.op = "needs_maintenance"
     /\ tl_out.by = "host"
     /\ Len(tl_env.monitor_states) > 0
     /\ \A d \in dts : d.host # tl_env.monitor_host) =>
        (tl_out.res <=>
            GetHostState(tl_hosts, tl_env.monitor_host) \in Range(tl_env.monitor_states))

\* C27: in an extension run the delete of the rule's downtimes is issued
\* before the batched re-add: in the sequence of calls of a completed run
\* that re-adds a target, the delete call precedes every set_downtimes call.
C27_DeleteBeforeReadd ==
    (run.pc = "done" /\ run.remove_old) =>
        /\ \E i \in 1..Len(run.calls) : run.calls[i].op = "delete_downtimes_by_keyword"
        /\ \A i, j \in 1..Len(run.calls) :
              (/\ run.calls[i].op = "delete_downtimes_by_keyword"
               /\ run.calls[j].op = "set_downtimes") => i < j

\* the targets the set_downtimes calls of the invocation were given
TargetsSet ==
    UNION {Range(run.calls[i].targets) :
             i \in {k \in 1..Len(run.calls) : run.calls[k].op = "set_downtimes"}}

\* no resolved target has exactly one downtime of the rule that ends within
\* two check intervals of the time of the decision
NoExtensionNeeded ==
    \A i \in 1..Len(run.lost.tgt_list) :
        LET own == DowntimesOf(run.curr, run.lost.tgt_list[i])
        IN Cardinality(own) = 1 =>
              \A d \in own : ~(run.add_start > d.end - 2 * run.lost.normal_check_interval)

\* C28: when maintenance is required and no target needs extension, the
\* targets given to set_downtimes are exactly the resolved targets that have
\* no downtime of the rule; a target with exactly one such downtime keeps
\* it untouched; and when every target has one, no mutation call is made.
C28_AddsExactlyTheUncovered ==
    (run.pc \in {"write", "done"} /\ run.maintenance /\ NoExtensionNeeded) =>
        LET tgts == Range(run.lost.tgt_list)
            zero == {<<t.host, t.svc>> : t \in {u \in tgts : DowntimesOf(run.curr, u) = {}}}
        IN /\ TargetsSet = zero
           /\ zero = {} => run.calls = <<>>
           /\ \A t \in tgts : Cardinality(DowntimesOf(run.curr, t)) = 1 =>
                 DowntimesOf(dts, t) = DowntimesOf(run.curr, t)

\* the targets of the set_downtimes calls the invocation has made or is
\* about to make
TargetsToSet ==
    TargetsSet \cup UNION {Range(run.pending[i].targets) : i \in 1..Len(run.pending)}

\* C29: a target with exactly one downtime of the rule triggers extension
\* exactly when now > end_time - 2 * normal_check_interval, in seconds: the
\* invocation decides to extend iff some resolved target has exactly one
\* such downtime and that downtime ends within two check intervals; and
\* once it has decided to extend, every resolved target with exactly one
\* downtime of the rule is among the targets it sets again.
C29_ExtensionThreshold ==
    (run.pc \in Decided /\ run.maintenance) =>
        LET tgts == Range(run.lost.tgt_list)
            one == {t \in tgts : Cardinality(DowntimesOf(run.curr, t)) = 1}
        IN /\ run.needing_readd <=>
                 \E t \in one : \E d \in DowntimesOf(run.curr, t) :
                     run.add_start > d.end - 2 * run.lost.normal_check_interval
           /\ run.needing_readd => \A t \in one : <<t.host, t.svc>> \in TargetsToSet

(***************************************************************************)
(* Batching: RestAPI.set_downtimes on target lists around the batch size   *)
(***************************************************************************)
DigitChars == <<"0", "1", "2", "3", "4", "5", "6", "7", "8", "9">>

\* str(i)
RECURSIVE Decimal(_)
Decimal(i) ==
    IF i < 10 THEN <<DigitChars[i + 1]>>
    ELSE Decimal(i \div 10) \o <<DigitChars[(i % 10) + 1]>>

\* the i-th host of a large target list
BatchHost(i) == <<"h">> \o Decimal(i)

\* numbers of targets of one scope: none, a few, and the sizes around one
\* full chunk
BatchSizes ==
    {0, 1, 2, MAX_QUERY_BATCH_SIZE - 1, MAX_QUERY_BATCH_SIZE, MAX_QUERY_BATCH_SIZE + 1,
     MAX_QUERY_BATCH_SIZE + 2}

\* a resolved target list with h host targets and s service targets
BatchTargets(h, s) ==
    [i \in 1..h |-> [host |-> BatchHost(i), label |-> "similar", svc |-> NoSvc]]
    \o [i \in 1..s |-> [host |-> BatchHost(i), label |-> "depsvc", svc |-> sCPU]]

\* main has found maintenance required and no downtime of the rule on any of
\* the targets, and calls Downtimes.add_all
InitBatch ==
    /\ TgtIdle
    /\ CacheIdle
    /\ dts = {}
    /\ state_file = NoStateFile
    /\ quiet = FALSE
    /\ \E h \in BatchSizes, s \in BatchSizes :
          LET tgts == BatchTargets(h, s)
              list == HostSvcList({}, tgts, FALSE)
          IN run = [NoRun EXCEPT
                      !.n = 1, !.cfg = "A", !.maintenance = TRUE,
                      !.lost = [FreshState EXCEPT !.has_tgt = TRUE, !.tgt_list = tgts,
                                                  !.no_active_maint = "False"],
                      !.pending = Posts(CreateHash(CfgOf("A")), list),
                      !.pc = IF list = {} THEN "write" ELSE "set"]

SpecBatch == InitBatch /\ [][SetChunk]_vars

Ceil(a, b) == (a + b - 1) \div b

\* C30: the additions of one run go through one set_downtimes invocation
\* that splits the targets by scope and into chunks of at most 50: for H
\* host targets and S service targets it sends ceil(H/50) host requests and
\* ceil(S/50) service requests and nothing else, no request is empty, and
\* every target is in exactly one request, a request of its scope.
C30_BatchedByScope ==
    run.pc = "write" =>
        LET tgts == Range(run.lost.tgt_list)
            H == Cardinality({t \in tgts : t.svc = NoSvc})
            S == Cardinality({t \in tgts : t.svc # NoSvc})
            calls == run.calls
            Of(type) == {i \in 1..Len(calls) : calls[i].type = type}
        IN /\ \A i \in 1..Len(calls) :
                 /\ calls[i].op = "set_downtimes"
                 /\ Len(calls[i].targets) \in 1..MAX_QUERY_BATCH_SIZE
           /\ Cardinality(Of("host")) = Ceil(H, MAX_QUERY_BATCH_SIZE)
           /\ Cardinality(Of("service")) = Ceil(S, MAX_QUERY_BATCH_SIZE)
           /\ Len(calls) = Ceil(H, MAX_QUERY_BATCH_SIZE) + Ceil(S, MAX_QUERY_BATCH_SIZE)
           /\ \A t \in tgts :
                 Cardinality({<<i, j>> \in (1..Len(calls)) \X (1..MAX_QUERY_BATCH_SIZE) :
                                /\ j <= Len(calls[i].targets)
                                /\ calls[i].targets[j] = <<t.host, t.svc>>
                                /\ calls[i].type =
                                      IF t.svc = NoSvc THEN "host" ELSE "service"}) = 1

\* a full chunk of host targets and one more, and a full chunk of service
\* targets and two more, have been sent in four requests
C30_Witness ==
    /\ run.pc = "write"
    /\ Len(run.lost.tgt_list) = 2 * MAX_QUERY_BATCH_SIZE + 3
    /\ Len(run.calls) = 4
    /\ run.calls[2].type = "host"
    /\ Len(run.calls[2].targets) = 1
    /\ run.calls[4].type = "service"
    /\ Len(run.calls[4].targets) = 2

(***************************************************************************)
(* Answers to set_downtimes: target lists in which some targets are no     *)
(* longer known to the monitoring core                                     *)
(***************************************************************************)
\* a host that was removed from the monitoring after the targets were resolved
nGone == <<"g", "o", "n", "e">>

\* targets that exist in the core and targets that do not
AnswerTargets ==
    {[host |-> nDBa, label |-> "similar", svc |-> NoSvc],
     [host |-> nW, label |-> "similar", svc |-> NoSvc],
     [host |-> nGone, label |-> "similar", svc |-> NoSvc],
     [host |-> nDBa, label |-> "depsvc", svc |-> sPDB],
     [host |-> nW, label |-> "depsvc", svc |-> sCPU],
     [host |-> nGone, label |-> "depsvc", svc |-> sCPU]}

\* main has found maintenance required and no downtime of the rule on any of
\* the targets, and calls Downtimes.add_all; pad is a number of further host
\* targets, unknown to the core
InitSet ==
    /\ TgtIdle
    /\ CacheIdle
    /\ dts = {}
    /\ state_file = NoStateFile
    /\ quiet = FALSE
    /\ \E pad \in {0, MAX_QUERY_BATCH_SIZE}, ts \in SUBSET AnswerTargets :
          LET tgts == BatchTargets(pad, 0) \o SetToSeq(ts)
              list == HostSvcList({}, tgts, FALSE)
          IN run = [NoRun EXCEPT
                      !.n = 1, !.cfg = "A", !.maintenance = TRUE,
                      !.lost = [FreshState EXCEPT !.has_tgt = TRUE, !.tgt_list = tgts,
                                                  !.no_active_maint = "False"],
                      !.pending = Posts(CreateHash(CfgOf("A")), list),
                      !.pc = IF list = {} THEN "write" ELSE "set"]

SpecSet == InitSet /\ [][SetChunk]_vars

\* the answer to a chunk says that its query matched no object
NoMatch(resp) == resp.code = HTTP_UNPROCESSABLE /\ resp.no_match

\* C31: in set_downtimes a chunk answered with 422 "not match any" is
\* skipped and the chunks after it are still sent; any other answer than
\* 204 ends the run as fatal at that chunk: the chunks sent before it stay
\* applied and the chunks after it are not sent.
C31_NoMatchSkippedErrorFatal ==
    LET e == CfgOf(run.cfg)
        all == Posts(CreateHash(e), HostSvcList({}, run.lost.tgt_list, FALSE))
    IN run.pc \in {"set", "write", "crash"} =>
          /\ run.calls \o run.pending = all
          /\ dts = UNION {ApplySet({}, run.calls[i], run.add_start,
                                   run.add_start + 60 * e.default_downtime) :
                            i \in 1..Len(run.calls)}
          /\ NoMatch(run.resp) => run.pc # "crash"
          /\ run.pc = "write" => run.pending = <<>>
          /\ run.pc = "crash" =>
                /\ run.exit = NAGRES_CRASH
                /\ run.resp \in ErrorAnswers
                /\ run.pending # <<>>

\* a chunk was answered with "not match any", a later chunk was applied, and
\* the chunk after that was answered with an error: the run has ended with
\* exit 3 and the downtimes of the applied chunk exist
C31_Witness ==
    /\ run.pc = "crash"
    /\ run.pending # <<>>
    /\ dts # {}
    /\ \E i, j \in 1..Len(run.calls) :
          /\ i < j
          /\ NoMatch(CoreAnswer(run.calls[i]))
          /\ CoreAnswer(run.calls[j]).code = HTTP_NO_CONTENT

\* the childs of the hosts named in S, by host name
ChildsOf(hosts, S) == UNION {hosts[i].childs : i \in {k \in 1..Len(hosts) : hosts[k].name \in S}}

\* the hosts reachable from the hosts in S over one or more child edges
RECURSIVE Descendants(_, _, _)
Descendants(hosts, S, n) ==
    IF n = 0 THEN {}
    ELSE LET c == ChildsOf(hosts, S)
         IN c \cup Descendants(hosts, c, n - 1)

\* no host of the inventory is its own descendant
Acyclic(hosts) ==
    \A i \in 1..Len(hosts) : hosts[i].name \notin Descendants(hosts, {hosts[i].name}, Len(hosts))

\* C32: on an acyclic parent/child graph the recursive child expansion of
\* the reference host returns exactly the hosts reachable from it over one
\* or more child edges, and no host that is not a descendant of it, also
\* when the alias of some host equals the name of another host.
C32_ChildsAreDescendants ==
    (tl_out.op = "childs" /\ Acyclic(tl_hosts)) =>
        /\ ~tl_out.overflow
        /\ tl_out.res = Descendants(tl_hosts, {tl_env.my_host_name}, Len(tl_hosts))

(***************************************************************************)
(* One rule and the snapshot rebuilds of other rules, with time passing    *)
(* and rebuilds happening while an invocation of the rule is running       *)
(***************************************************************************)
\* seconds an invocation spends waiting for the answers of the API
RunSeconds == 5

\* time between two invocations: about half the life of a snapshot, and a
\* time that ends RunSeconds before a snapshot expires
RaceTickSteps == {1700, MaxCacheAge - RunSeconds}

RaceCfg == "A"

\* time passes between two invocations
RaceTick ==
    /\ run.pc \in Resting
    /\ \E d \in RaceTickSteps :
          /\ c_now + d <= MaxTime
          /\ c_now' = c_now + d
    /\ dts' = {x \in dts : x.end > c_now'}
    /\ quiet' = (quiet /\ dts' = dts)
    /\ UNCHANGED <<tlVars, c_file, c_lock, c_proc, c_hist, state_file, run>>

\* time passes while the invocation waits, once, for the monitoring core
RunTick ==
    /\ run.pc = "decide"
    /\ ~run.waited
    /\ c_now + RunSeconds <= MaxTime
    /\ c_now' = c_now + RunSeconds
    /\ run' = [run EXCEPT !.waited = TRUE]
    /\ UNCHANGED <<tlVars, c_file, c_lock, c_proc, c_hist, dts, state_file, quiet>>

\* the check of another rule finds the snapshot unusable and rebuilds it
\* while the invocation of this rule is between its load and its write
RebuildDuringRun ==
    /\ run.pc \in {"decide", "remove", "write"}
    /\ ~SnapshotFresh(c_file, c_now)
    /\ LockGranted(c_lock)
    /\ c_file' = FileOf(c_now, TRUE)
    /\ UNCHANGED <<tlVars, c_now, c_lock, c_proc, c_hist, mVars>>

NextRace ==
    \/ Begin(RaceCfg)
    \/ GetLocalState
    \/ EnsureTgtList
    \/ Decide
    \/ RemoveAllOwn
    \/ WriteState
    \/ ProcessEnds
    \/ RaceTick
    \/ RunTick
    \/ OtherRebuild
    \/ RebuildDuringRun

SpecRace == InitMain /\ [][NextRace]_vars

\* C33: write sets the fingerprint and last_update_ts only when they are
\* unset: a write of a state that has them leaves them as they are, so the
\* time stamp stays that of the first write of the state; and load accepts
\* no state whose time stamp is more than MAX_CACHE_AGE old, also when the
\* state file has been rewritten since.
C33_CreationStampIsKept ==
    /\ [](run.pc = "tgt" /\ run.accepted =>
             /\ run.lost.last_update_ts # NoTs
             /\ c_now - run.lost.last_update_ts <= MaxCacheAge)
    /\ [][(run.pc = "write" /\ run'.pc = "done") =>
             /\ state_file'.data.last_update_ts =
                   IF run.lost.last_update_ts = NoTs THEN c_now
                   ELSE run.lost.last_update_ts
             /\ state_file'.data.cfg_hash =
                   IF run.lost.cfg_hash = "None" THEN run.cfg ELSE run.lost.cfg_hash
             /\ run.accepted => /\ state_file.exists
                                /\ state_file'.data.last_update_ts =
                                      state_file.data.last_update_ts]_vars

\* a state file that was rewritten after the first write of its state, is
\* younger than MAX_CACHE_AGE and not older than the fresh snapshot, has the
\* fingerprint of the invocation, and is discarded by load for its time stamp
C33_Witness ==
    /\ run.pc = "tgt"
    /\ ~run.accepted
    /\ state_file.exists
    /\ state_file.data.cfg_hash = run.cfg
    /\ state_file.mtime > state_file.data.last_update_ts
    /\ c_now - state_file.mtime < MaxCacheAge
    /\ SnapshotFresh(c_file, c_now)
    /\ state_file.mtime >= c_file.mtime
    /\ c_now - state_file.data.last_update_ts > MaxCacheAge

LoadNow == 4000

\* env.default_downtime, in minutes
LoadDurations == {1, 30}

\* seconds in one third of a downtime duration of d minutes
ThirdOf(d) == (60 * d) \div 3

\* the times a persisted state can carry as _short_lived_refresh
LoadRefreshTimes(d) ==
    {NoTs, LoadNow, LoadNow - (ThirdOf(d) - 1), LoadNow - ThirdOf(d),
     LoadNow - (ThirdOf(d) + 1)}

\* the state files of the rule: written at most 100 s ago, the state created
\* at most MAX_CACHE_AGE + 1 ago
LoadFiles(d) ==
    {[exists |-> TRUE, mtime |-> LoadNow - 100,
      data |-> [has_tgt |-> TRUE, tgt_list |-> <<[host |-> nDB, svc |-> NoSvc]>>,
                no_active_maint |-> f, normal_check_interval |-> nci,
                short_lived_refresh |-> slr, cfg_hash |-> RaceCfg,
                last_update_ts |-> ts]] :
        f \in {"True", "False"},
        nci \in {NoInterval, 60 * CheckIntervalMinutes},
        slr \in LoadRefreshTimes(d),
        ts \in {NoTs, LoadNow - 100, LoadNow - MaxCacheAge, LoadNow - (MaxCacheAge + 1)}}

InitLoad ==
    /\ tl_hosts = <<>>
    /\ tl_out = [op |-> "none"]
    /\ \E d \in LoadDurations :
          /\ tl_env = [my_host_name |-> nDB, default_downtime |-> d]
          /\ state_file \in LoadFiles(d)
    /\ c_now = LoadNow
    /\ c_file = FileOf(LoadNow - 200, TRUE)
    /\ c_lock = Unlocked
    /\ c_proc = [p \in Procs |-> IdleProc]
    /\ c_hist = NoRebuild
    /\ dts = {}
    /\ quiet = FALSE
    /\ run = [NoRun EXCEPT !.pc = "state", !.n = 1, !.cfg = RaceCfg,
                           !.state0 = state_file]

\* _get_local_state up to the return of LocalStateCache.load
LoadState ==
    /\ run.pc = "state"
    /\ LET g == GetCacheFileTime(c_file, c_now)
           r == LocalStateLoad(state_file, g.has /\ ~g.expired, g.ft,
                               tl_env.default_downtime, run.cfg, c_now)
       IN run' = [run EXCEPT !.pc = "tgt", !.lost = r.data, !.accepted = r.found]
    /\ UNCHANGED <<tlVars, cVars, dts, state_file, quiet>>

SpecLoad == InitLoad /\ [][LoadState]_vars

\* C34: in a state that load accepts, the short-lived data are refreshed
\* exactly when _short_lived_refresh is unset or more than one third of the
\* downtime duration old: normal_check_interval is cleared and the refresh
\* time is set to now; otherwise both stay.  The target list, the
\* no_active_maint flag, the fingerprint and last_update_ts are returned as
\* they were persisted.
C34_ShortLivedRefresh ==
    (run.pc = "tgt" /\ run.accepted) =>
        LET old == state_file.data
            new == run.lost
            stale == \/ old.short_lived_refresh = NoTs
                     \/ 3 * (c_now - old.short_lived_refresh) > 60 * tl_env.default_downtime
        IN /\ new.normal_check_interval =
                 IF stale THEN NoInterval ELSE old.normal_check_interval
           /\ new.short_lived_refresh = IF stale THEN c_now ELSE old.short_lived_refresh
           /\ new.has_tgt = old.has_tgt
           /\ new.tgt_list = old.tgt_list
           /\ new.no_active_maint = old.no_active_maint
           /\ new.cfg_hash = old.cfg_hash
           /\ new.last_update_ts = old.last_update_ts

\* a state with a check interval, refreshed one second more than one third
\* of the downtime duration ago, was accepted and its check interval cleared
C34_Witness ==
    /\ run.pc = "tgt"
    /\ run.accepted
    /\ state_file.data.normal_check_interval # NoInterval
    /\ c_now - state_file.data.short_lived_refresh = ThirdOf(tl_env.default_downtime) + 1
    /\ run.lost.normal_check_interval = NoInterval
    /\ run.lost.short_lived_refresh = c_now
    /\ run.lost.no_active_maint = "True"

\* C36: while no invocation of the rule is running and the persisted state
\* carries no_active_maint = True, no downtime with the hash of the rule
\* (the hash of the arguments the state was written for) exists.
C36_FlagMeansNoDowntime ==
    (/\ run.pc \in Resting
     /\ state_file.exists
     /\ state_file.data.no_active_maint = "True") =>
        \A d \in dts : d.hash # CreateHash(CfgOf(state_file.data.cfg_hash))

(***************************************************************************)
(* A rule whose target list contains the monitored host: successive        *)
(* invocations with the argument list SelfCfg                              *)
(***************************************************************************)
NextSelf ==
    \/ Begin(SelfCfg)
    \/ GetLocalState
    \/ EnsureTgtList
    \/ Decide
    \/ SetChunk
    \/ DeleteOld
    \/ RemoveAllOwn
    \/ ApiFails
    \/ WriteState
    \/ InventoryFails
    \/ ProcessEnds
    \/ MainTick
    \/ ForeignToggle
    \/ OtherRebuild
    \/ OtherLock

SpecSelf == InitMain /\ [][NextSelf]_vars

\* C37: the downtimes the rule created do not count as the reference
\* downtime: an invocation finds maintenance required only while the
\* downtime the operator scheduled on the monitored host exists.
C37_OwnDowntimeIsNoTrigger ==
    run.maintenance => ForeignDowntime \in dts

\* the downtimes that exist now and did not when the invocation decided
CreatedByRun == dts \ run.curr

\* C38: the delete by keyword of an extension run removes no downtime the
\* run created (it removes only downtimes that started OLD_DOWNTIME_MARGIN or
\* more before the start of the run), so after it every target that was set
\* again and is known to the core has its fresh downtime; and all downtimes
\* one run creates have one start and one end.
C38_FreshDowntimesSurvive ==
    /\ [](run.pc \in {"set", "delete_old", "write", "done"} =>
             \A d \in CreatedByRun :
                 /\ d.start = run.add_start
                 /\ d.end = run.add_start + 60 * CfgOf(run.cfg).default_downtime)
    /\ [][(run.pc = "delete_old" /\ run'.pc = "write") =>
             /\ \A d \in dts : d.start = run.add_start => d \in dts'
             /\ \A d \in dts \ dts' : /\ d.hash = CreateHash(CfgOf(run.cfg))
                                      /\ d.start <= run.add_start - OLD_DOWNTIME_MARGIN
             /\ \A t \in {u \in TargetsSet : Monitored(u)} :
                   \E d \in dts' : /\ d.host = t[1]
                                   /\ d.svc = t[2]
                                   /\ d.hash = CreateHash(CfgOf(run.cfg))
                                   /\ d.start = run.add_start]_vars

\* an extension run has deleted the older downtimes of the rule and left the
\* downtimes it created
C38_Witness ==
    /\ run.pc = "write"
    /\ run.remove_old
    /\ run.calls # <<>>
    /\ run.calls[Len(run.calls)] = DeleteCall(TRUE)
    /\ \E d \in run.curr \ dts : d.hash = CreateHash(CfgOf(run.cfg))
    /\ CreatedByRun # {}
    /\ \A t \in {u \in TargetsSet : Monitored(u)} :
          \E d \in CreatedByRun : d.host = t[1] /\ d.svc = t[2]

(***************************************************************************)
(* A rule whose target list holds a pair more than once: successive        *)
(* invocations with the argument list DupCfg                               *)
(***************************************************************************)
NextDup ==
    \/ Begin(DupCfg)
    \/ GetLocalState
    \/ EnsureTgtList
    \/ Decide
    \/ SetChunk
    \/ DeleteOld
    \/ RemoveAllOwn
    \/ ApiFails
    \/ WriteState
    \/ InventoryFails
    \/ ProcessEnds
    \/ MainTick
    \/ ForeignToggle
    \/ OtherRebuild
    \/ OtherLock

SpecDup == InitMain /\ [][NextDup]_vars

\* set(host_svc_list) of the invocation
EntriesOfRun == HostSvcList(run.curr, run.lost.tgt_list, run.needing_readd)

\* the targets of the POSTs the invocation is about to make, in their order
RECURSIVE PendingTargets(_)
PendingTargets(posts) ==
    IF posts = <<>> THEN <<>> ELSE Head(posts).targets \o PendingTargets(Tail(posts))

\* C39: the batch given to set_downtimes holds every (host, service) pair at
\* most once: no two entries of set(host_svc_list) have the same pair, the
\* batch has one target per entry, and no target is repeated in it.
C39_BatchWithoutRepeats ==
    (run.pc = "set" /\ run.calls = <<>>) =>
        /\ \A x, y \in EntriesOfRun : (x.host = y.host /\ x.svc = y.svc) => x = y
        /\ Len(PendingTargets(run.pending)) = Cardinality(EntriesOfRun)
        /\ NoRepeats(PendingTargets(run.pending))
        /\ Range(PendingTargets(run.pending)) = {<<x.host, x.svc>> : x \in EntriesOfRun}

\* the target list holds a host and a service twice each, under different
\* labels, and both are in the batch
C39_Witness ==
    /\ run.pc = "set"
    /\ run.calls = <<>>
    /\ \E i, j, k, l \in 1..Len(run.lost.tgt_list) :
          LET t == run.lost.tgt_list
          IN /\ i # j /\ t[i].host = t[j].host /\ t[i].svc = t[j].svc
             /\ t[i].label # t[j].label /\ t[i].svc = NoSvc
             /\ k # l /\ t[k].host = t[l].host /\ t[k].svc = t[l].svc
             /\ t[k].label # t[l].label /\ t[k].svc # NoSvc
             /\ <<t[i].host, t[i].svc>> \in Range(PendingTargets(run.pending))
             /\ <<t[k].host, t[k].svc>> \in Range(PendingTargets(run.pending))

\* C40: an invocation that reaches the final write of the state holds a
\* state whose fingerprint is unset or its own, so LocalStateCache.write does
\* not raise its conflict error there and the invocation ends with the write.
C40_NoWriteConflictInMain ==
    /\ [](run.pc = "write" => run.lost.cfg_hash \in {"None", run.cfg})
    /\ [][run.pc = "write" =>
             /\ run'.pc = "done"
             /\ state_file'.exists
             /\ state_file'.data.cfg_hash = run.cfg]_vars

\* an invocation that found the state file of other arguments has reached
\* the write with a state without fingerprint
C40_Witness ==
    /\ run.pc = "write"
    /\ run.mismatch
    /\ state_file.exists
    /\ state_file.data.cfg_hash \in Cfgs \ {run.cfg}
    /\ run.lost.cfg_hash = "None"

====
